---- MODULE Spec2Model ----
(***************************************************************************)
(* Kaskade backend: reservation / commit protocol, scheduler tick,         *)
(* per-pair executor worker and restart recovery.                          *)
(*                                                                         *)
(* Persistent state (SQL tables): sessions, batches, batch_items.          *)
(* Volatile state: session cache (map + RR ring), paging offset, market    *)
(* view store, scheduler->router channel, worker queue, worker position.   *)
(* Every SQL transaction is one atomic step (SQLite serialises writers);   *)
(* the worker is split at its await on the external swap executor.        *)
(***************************************************************************)
EXTENDS Integers, Sequences, FiniteSets, TLC

(* ------------------------------ bounds --------------------------------- *)
\* batches the model lets the scheduler reserve
MaxBatches == 2
\* process restarts (kill + init_store) the model explores
MaxRestarts == 1
\* repeated commit_batch calls explored by SpecRecommit
MaxRecommits == 1
\* scheduler configuration (Scheduler::new arguments)
CandidateMin == 3
MaxAttempts == 4
MaxUsersPerBatch == 2
\* longest intent list handed to the planner outside a tick
MaxIntents == 3
\* page size of the store scaled down to the model's sessions table
SmallPageSize == 1

\* Batches sent to a router that serves several pairs.
MaxRouted == 4

\* max_cached and eviction_scan of a cache at scale (5,000 and 64 in the
\* store)
SmallMaxCached == 3
SmallEvictionScan == 2

\* samples pushed into a rolling window
MaxPushes == 4

\* longest allocation list handed to reserve_execution outside a tick
MaxAllocations == 3

\* per_pair_capacity of that router, at scale (128 in main).
PerPairCapacity == 1

(* ------------------------- program constants --------------------------- *)
PageSize == 500
MaxCached == 5000
EvictionScan == 64
HardMaxTotalBidPerTick == 50000000
DepthUtilizationDivisor == 4
MaxBidPerUserPerTick == 10000000
MaxChunkBid == 2000000
MinChunkBid == 100000
DefaultFailureCooldownMs == 10000
ErrMax == 160
SessionNotFoundCooldownMs == 5000
TickIntervalMs == 250
DefaultMaxAgeMs == 30000

(* --------------------------- model inputs ------------------------------ *)
PAIR == "TON/STON"

\* Session ids (UUIDs in the code).  Odd sessions want their whole balance
\* in one tick, as two chunks (preferred_chunk_bid = 2 * max_chunk_bid);
\* even sessions want one small chunk per tick, twice.
SessionIds == {1, 2}

\* The pair_id column of a sessions row: the sessions the scheduler of the
\* pair works on belong to PAIR, any other session to another pair.
PairOf(sid) == IF sid \in SessionIds THEN PAIR ELSE "TON/USDT"

\* SessionIntent: immutable per session.
Intent(sid) ==
    IF sid % 2 = 1
    THEN [max_spread_bps |-> 10, max_trend_drop_bps |-> 10, max_slippage_bps |-> 10,
          preferred_chunk_bid |-> 4000000, max_bid_per_tick |-> 4000000,
          quantum |-> 4000000]
    ELSE [max_spread_bps |-> 10, max_trend_drop_bps |-> 10, max_slippage_bps |-> 10,
          preferred_chunk_bid |-> 100000, max_bid_per_tick |-> 500000,
          quantum |-> 100000]

\* The row of a session as first inserted in the sessions table: SessionState
\* and the quantum column.
InitialState(sid) ==
    IF sid % 2 = 1
    THEN [active |-> TRUE, remaining_bid |-> 4000000, remaining_chunks |-> 2,
          in_flight_bid |-> 0, in_flight_chunks |-> 0, cooldown_until_ms |-> 0,
          quantum |-> Intent(sid).quantum,
          deficit |-> 0, last_served_ms |-> 0, has_pending_batch |-> FALSE]
    ELSE [active |-> TRUE, remaining_bid |-> 200000, remaining_chunks |-> 2,
          in_flight_bid |-> 0, in_flight_chunks |-> 0, cooldown_until_ms |-> 0,
          quantum |-> Intent(sid).quantum,
          deficit |-> 0, last_served_ms |-> 0, has_pending_batch |-> FALSE]

\* Quanta an even session may have been created with: its whole preferred
\* chunk per visit, a quarter of it, or a tenth of it.
SlowQuanta == {Intent(2).quantum, Intent(2).quantum \div 4, Intent(2).quantum \div 10}

\* Snapshots the market feed may publish: every metric exactly on the
\* sessions' limits, and spread just above the limit.
MarketViews ==
    { [ts_ms |-> 0, spread_bps |-> 10, trend_drop_bps |-> 10, slippage_bps |-> 10,
       depth_now_in |-> 1000000000],
      [ts_ms |-> 0, spread_bps |-> 11, trend_drop_bps |-> 5, slippage_bps |-> 5,
       depth_now_in |-> 1000000000] }

\* Instants at which the model samples the wall clock (now_ms()).
ClockInstants == {TickIntervalMs, DefaultFailureCooldownMs + TickIntervalMs}

\* An error message longer than the limit classify_error keeps.
LongError ==
    "rpc error: request to the liquidity pool timed out after 30000 ms while waiting for the transaction to be included in a block; the node returned no receipt and the call was abandoned"

\* Results the external swap executor may return: a receipt, or an error
\* with its message.
SwapOutcomes == {"ok", "swap rejected: MarketNotOpen", LongError}

(* ------------------------------ helpers -------------------------------- *)
Min(a, b) == IF a <= b THEN a ELSE b
\* u128 / u32 saturating_sub
SaturatingSub(a, b) == IF a >= b THEN a - b ELSE 0

RECURSIVE SumSeq(_)
SumSeq(q) == IF q = <<>> THEN 0 ELSE Head(q) + SumSeq(Tail(q))

\* Option<T>: None is <<>>, Some(v) is <<v>>.
None == <<>>
Some(v) == <<v>>

VARIABLES
    sessions,      \* sessions table: session_id -> SessionState row
    batches,       \* batches table: batch_id (index) -> row
    batch_items,   \* batch_items table: chunk_id (index) -> row
    cache_map,     \* SessionCache.map: cached session_id -> SessionState clone
    rr,            \* SessionCache.rr: ring of session ids
    last_offset,   \* SessionStore.last_offset
    market_view,   \* MarketViewStore entry of PAIR: None or Some(view)
    exec_chan,     \* scheduler -> router channel of ReservedBatch
    exec_open,     \* whether the receiving end of exec_chan is alive
    worker_q,      \* router -> pair worker channel of ReservedBatch
    worker,        \* ExecutorWorker position inside execute_batch
    now,           \* wall clock, ms
    restarts,      \* number of process restarts so far
    swapped,       \* history: session_id -> total bid of successful swaps
    last_commit,   \* history: None or Some(arguments of the last commit_batch
                   \* call and whether its transaction committed)
    recommits,     \* history: repeated commit_batch calls so far
    plan_call,     \* None or Some(arguments and result of a call of
                   \* derive_execution_plan made outside a tick)
    router,        \* a PairExecutorRouter serving several pairs, its input
                   \* channel, its pair workers and their channels
    bounded_cache, \* a SessionCache with a small max_cached
    window,        \* a RollingWindow of the market crate
    reserve_call   \* None or Some(arguments and result of a call of
                   \* reserve_execution made outside a tick)

vars == <<sessions, batches, batch_items, cache_map, rr, last_offset, market_view,
          exec_chan, exec_open, worker_q, worker, now, restarts, swapped,
          last_commit, recommits, plan_call, router, bounded_cache, window,
          reserve_call>>

\* The variables of the program run of main, and those of the components
\* that are also exercised on their own.
core_vars == <<sessions, batches, batch_items, cache_map, rr, last_offset, market_view,
               exec_chan, exec_open, worker_q, worker, now, restarts, swapped,
               last_commit, recommits>>

aux_vars == <<plan_call, router, bounded_cache, window, reserve_call>>

(* ---------------------------- Session model ---------------------------- *)
available_bid(s) == SaturatingSub(s.remaining_bid, s.in_flight_bid)

available_chunks(s) == SaturatingSub(s.remaining_chunks, s.in_flight_chunks)

is_eligible(s, now_ms) ==
    /\ s.active
    /\ s.cooldown_until_ms <= now_ms
    /\ available_bid(s) > 0
    /\ available_chunks(s) > 0

(* -------------------------------- DRR ---------------------------------- *)
\* i128 saturation is out of reach of the magnitudes used here.
accumulate_credit(sid, s) ==
    LET max_credit == Intent(sid).preferred_chunk_bid * 2
        next_credit == s.deficit + s.quantum
    IN [s EXCEPT !.deficit = Min(next_credit, max_credit)]

can_serve(s, cost_bid) == s.deficit >= cost_bid

charge(s, cost_bid) == [s EXCEPT !.deficit = s.deficit - cost_bid]

(* ---------------------------- Session cache ---------------------------- *)
RECURSIVE SeqRemove(_, _)
SeqRemove(q, x) ==
    IF q = <<>> THEN <<>>
    ELSE IF Head(q) = x THEN SeqRemove(Tail(q), x)
    ELSE <<Head(q)>> \o SeqRemove(Tail(q), x)

SeqContains(q, x) == \E i \in 1..Len(q) : q[i] = x

\* A pick_victim that examines the whole ring.
pick_victim_scans_whole_ring(map, ring, scan) ==
    LET n == Len(ring)
        colder(i, j) ==
            \/ map[ring[i]].deficit < map[ring[j]].deficit
            \/ /\ map[ring[i]].deficit = map[ring[j]].deficit
               /\ map[ring[i]].last_served_ms < map[ring[j]].last_served_ms
    IN IF n = 0 \/ \E i \in 1..n : ring[i] \notin DOMAIN map
       THEN None
       ELSE Some(ring[CHOOSE i \in 1..n :
                        /\ \A j \in 1..n : ~colder(j, i)
                        /\ \A j \in 1..(i - 1) : colder(i, j)])

\* Coldest entry among the first `scan` ring entries: lowest deficit, then
\* oldest last_served_ms, first such entry in ring order.  None when an
\* examined id is missing from the map or the ring is empty.
pick_victim(map, ring, scan) ==
    LET n == Min(Len(ring), scan)
        colder(i, j) ==
            \/ map[ring[i]].deficit < map[ring[j]].deficit
            \/ /\ map[ring[i]].deficit = map[ring[j]].deficit
               /\ map[ring[i]].last_served_ms < map[ring[j]].last_served_ms
    IN IF n = 0 \/ \E i \in 1..n : ring[i] \notin DOMAIN map
       THEN None
       ELSE Some(ring[CHOOSE i \in 1..n :
                        /\ \A j \in 1..n : ~colder(j, i)
                        /\ \A j \in 1..(i - 1) : colder(i, j)])

\* An upsert that leaves the evicted id in the ring.
upsert_with_keeps_victim_in_ring(c, sid, s, max_cached, eviction_scan) ==
    LET is_new == sid \notin DOMAIN c.map
        full == is_new /\ Cardinality(DOMAIN c.map) >= max_cached
        pv == pick_victim(c.map, c.ring, eviction_scan)
        victim == IF pv # None THEN pv ELSE
                  IF c.ring # <<>> THEN Some(Head(c.ring)) ELSE None
        map1 == IF full THEN [x \in (DOMAIN c.map) \ {victim[1]} |-> c.map[x]] ELSE c.map
    IN IF full /\ victim = None THEN c
       ELSE [map |-> [x \in (DOMAIN map1) \cup {sid} |-> IF x = sid THEN s ELSE map1[x]],
             ring |-> IF SeqContains(c.ring, sid) THEN c.ring ELSE Append(c.ring, sid)]

\* An upsert that evicts nothing.
upsert_with_no_eviction(c, sid, s, max_cached, eviction_scan) ==
    [map |-> [x \in (DOMAIN c.map) \cup {sid} |-> IF x = sid THEN s ELSE c.map[x]],
     ring |-> IF SeqContains(c.ring, sid) THEN c.ring ELSE Append(c.ring, sid)]

\* SessionCache::upsert on the pair (map, ring) of a cache constructed with
\* max_cached and eviction_scan.
upsert_with(c, sid, s, max_cached, eviction_scan) ==
    LET is_new == sid \notin DOMAIN c.map
        full == is_new /\ Cardinality(DOMAIN c.map) >= max_cached
        pv == pick_victim(c.map, c.ring, eviction_scan)
        victim == IF pv # None THEN pv ELSE
                  IF c.ring # <<>> THEN Some(Head(c.ring)) ELSE None
        map1 == IF full THEN [x \in (DOMAIN c.map) \ {victim[1]} |-> c.map[x]] ELSE c.map
        ring1 == IF full THEN SeqRemove(c.ring, victim[1]) ELSE c.ring
    IN IF full /\ victim = None THEN c
       ELSE [map |-> [x \in (DOMAIN map1) \cup {sid} |-> IF x = sid THEN s ELSE map1[x]],
             ring |-> IF SeqContains(ring1, sid) THEN ring1 ELSE Append(ring1, sid)]

\* upsert on the cache of the store (SessionCache::new(5_000)).
upsert(c, sid, s) == upsert_with(c, sid, s, MaxCached, EvictionScan)

\* SessionCache::rotate on the ring; the id returned is Head(ring).
rotate(ring) == IF ring = <<>> THEN ring ELSE Append(Tail(ring), Head(ring))

(* ------------------------- Session repository -------------------------- *)
\* Ascending enumeration of a finite set of session ids (row order).
RECURSIVE SetToSeq(_)
SetToSeq(S) ==
    IF S = {} THEN <<>>
    ELSE LET m == CHOOSE x \in S : \A y \in S : x <= y
         IN <<m>> \o SetToSeq(S \ {m})

\* SELECT ... WHERE active AND remaining_bid > 0 AND remaining_chunks > 0
\* LIMIT limit OFFSET offset; returns the session ids of the page.
fetch_page(sess, limit, offset) ==
    LET eligible == SetToSeq({sid \in DOMAIN sess :
                                  /\ sess[sid].active
                                  /\ sess[sid].remaining_bid > 0
                                  /\ sess[sid].remaining_chunks > 0})
    IN SubSeq(eligible, offset + 1, Min(Len(eligible), offset + limit))

\* UPDATE sessions SET deficit = ?, last_served_ms = ? WHERE session_id = ?
persist_fairness(sess, sid, deficit, last_served_ms) ==
    IF sid \in DOMAIN sess
    THEN [sess EXCEPT ![sid].deficit = deficit, ![sid].last_served_ms = last_served_ms]
    ELSE sess

\* A WHERE clause that does not test the has_pending_batch lock.
reserve_cas_hit_ignores_pending(sess, sid, pair_id, total_bid, total_chunks) ==
    /\ sid \in DOMAIN sess
    /\ PairOf(sid) = pair_id
    /\ sess[sid].active
    /\ sess[sid].remaining_bid - sess[sid].in_flight_bid >= total_bid
    /\ sess[sid].remaining_chunks - sess[sid].in_flight_chunks >= total_chunks

\* The WHERE clause of the conditional UPDATE of reserve_execution.
reserve_cas_hit(sess, sid, pair_id, total_bid, total_chunks) ==
    /\ sid \in DOMAIN sess
    /\ PairOf(sid) = pair_id
    /\ sess[sid].active
    /\ ~sess[sid].has_pending_batch
    /\ sess[sid].remaining_bid - sess[sid].in_flight_bid >= total_bid
    /\ sess[sid].remaining_chunks - sess[sid].in_flight_chunks >= total_chunks

\* A SET clause that counts one chunk per allocation.
reserve_cas_set_one_chunk(sess, sid, total_bid, total_chunks) ==
    [sess EXCEPT ![sid].in_flight_bid = @ + total_bid,
                 ![sid].in_flight_chunks = @ + 1,
                 ![sid].has_pending_batch = TRUE]

\* The SET clause of the conditional UPDATE of reserve_execution.
reserve_cas_set(sess, sid, total_bid, total_chunks) ==
    [sess EXCEPT ![sid].in_flight_bid = @ + total_bid,
                 ![sid].in_flight_chunks = @ + total_chunks,
                 ![sid].has_pending_batch = TRUE]

\* INSERT INTO batch_items ... 'PENDING' for each chunk of one allocation;
\* minted chunk ids are the row indexes.
RECURSIVE insert_items(_, _, _, _)
insert_items(items, batch_id, sid, chunks) ==
    IF chunks = <<>> THEN items
    ELSE insert_items(Append(items, [batch_id |-> batch_id, session_id |-> sid,
                                     bid |-> Head(chunks), status |-> "PENDING",
                                     tx_id |-> "", error |-> ""]),
                      batch_id, sid, Tail(chunks))

\* The loop of reserve_execution over the allocations, inside one transaction.
\* st = [sessions, batches, batch_items, users_out, total_reserved_any].
RECURSIVE reserve_loop_stops_at_miss(_, _, _, _, _)
reserve_loop_stops_at_miss(st, batch_id, pair_id, now_ms, allocations) ==
    IF allocations = <<>> THEN st
    ELSE
      LET a == Head(allocations)
          total_bid == SumSeq(a.chunks)
          total_chunks == Len(a.chunks)
      IN IF ~reserve_cas_hit(st.sessions, a.session_id, pair_id, total_bid, total_chunks)
         THEN st
         ELSE
           LET sess1 == reserve_cas_set(st.sessions, a.session_id, total_bid,
                                        total_chunks)
               batches1 == IF st.total_reserved_any THEN st.batches
                           ELSE Append(st.batches,
                                       [pair_id |-> pair_id, created_ms |-> now_ms,
                                        status |-> "RESERVED", reason |-> ""])
               first == Len(st.batch_items)
               items1 == insert_items(st.batch_items, batch_id, a.session_id, a.chunks)
               chunks_out == [i \in 1..Len(a.chunks) |->
                                [chunk_id |-> first + i, bid |-> a.chunks[i]]]
           IN reserve_loop_stops_at_miss(
                 [sessions |-> sess1, batches |-> batches1,
                  batch_items |-> items1,
                  users_out |-> Append(st.users_out,
                                       [session_id |-> a.session_id,
                                        chunks |-> chunks_out]),
                  total_reserved_any |-> TRUE],
                 batch_id, pair_id, now_ms, Tail(allocations))

RECURSIVE reserve_loop(_, _, _, _, _)
reserve_loop(st, batch_id, pair_id, now_ms, allocations) ==
    IF allocations = <<>> THEN st
    ELSE
      LET a == Head(allocations)
          total_bid == SumSeq(a.chunks)
          total_chunks == Len(a.chunks)
      IN IF ~reserve_cas_hit(st.sessions, a.session_id, pair_id, total_bid, total_chunks)
         THEN reserve_loop(st, batch_id, pair_id, now_ms, Tail(allocations))
         ELSE
           LET sess1 == reserve_cas_set(st.sessions, a.session_id, total_bid,
                                        total_chunks)
               batches1 == IF st.total_reserved_any THEN st.batches
                           ELSE Append(st.batches,
                                       [pair_id |-> pair_id, created_ms |-> now_ms,
                                        status |-> "RESERVED", reason |-> ""])
               first == Len(st.batch_items)
               items1 == insert_items(st.batch_items, batch_id, a.session_id, a.chunks)
               chunks_out == [i \in 1..Len(a.chunks) |->
                                [chunk_id |-> first + i, bid |-> a.chunks[i]]]
           IN reserve_loop([sessions |-> sess1, batches |-> batches1,
                            batch_items |-> items1,
                            users_out |-> Append(st.users_out,
                                                 [session_id |-> a.session_id,
                                                  chunks |-> chunks_out]),
                            total_reserved_any |-> TRUE],
                           batch_id, pair_id, now_ms, Tail(allocations))

\* A reserve_execution that inserts the batches row before the loop and
\* commits the transaction whatever the loop reserved.
reserve_execution_keeps_batch_row(sess, bts, items, pair_id, now_ms, allocations) ==
    LET batch_id == Len(bts) + 1
        row == [pair_id |-> pair_id, created_ms |-> now_ms, status |-> "RESERVED",
                reason |-> ""]
        st == reserve_loop([sessions |-> sess, batches |-> Append(bts, row),
                            batch_items |-> items, users_out |-> <<>>,
                            total_reserved_any |-> TRUE],
                           batch_id, pair_id, now_ms, allocations)
    IN [sessions |-> st.sessions, batches |-> st.batches,
        batch_items |-> st.batch_items,
        batch |-> IF st.users_out = <<>> THEN None
                  ELSE Some([batch_id |-> batch_id, pair_id |-> pair_id,
                             created_ms |-> now_ms, users |-> st.users_out])]

\* SqlxSessionRepository::reserve_execution.  Result: the tables after the
\* transaction and Option<ReservedBatch>; rollback when nothing was reserved.
reserve_execution(sess, bts, items, pair_id, now_ms, allocations) ==
    LET batch_id == Len(bts) + 1
        st == reserve_loop([sessions |-> sess, batches |-> bts, batch_items |-> items,
                            users_out |-> <<>>, total_reserved_any |-> FALSE],
                           batch_id, pair_id, now_ms, allocations)
    IN IF ~st.total_reserved_any
       THEN [sessions |-> sess, batches |-> bts, batch_items |-> items, batch |-> None]
       ELSE [sessions |-> st.sessions, batches |-> st.batches,
             batch_items |-> st.batch_items,
             batch |-> Some([batch_id |-> batch_id, pair_id |-> pair_id,
                             created_ms |-> now_ms, users |-> st.users_out])]

\* A commit_success that spends the bid but leaves the reservation counted
\* in in_flight_*.
commit_success_keeps_in_flight(st, sid, cr, now_ms) ==
    LET bid == st.batch_items[cr.chunk_id].bid
    IN [sessions |-> [st.sessions EXCEPT
                        ![sid].remaining_bid = @ - bid,
                        ![sid].remaining_chunks = @ - 1,
                        ![sid].last_served_ms = now_ms],
        batch_items |-> [st.batch_items EXCEPT
                           ![cr.chunk_id].status = "SUCCESS",
                           ![cr.chunk_id].tx_id = cr.tx_id,
                           ![cr.chunk_id].error = ""]]

\* commit_batch, ChunkStatus::Success arm: the chunk row becomes SUCCESS and
\* the session's in_flight_* and remaining_* both drop by the chunk.
commit_success(st, sid, cr, now_ms) ==
    LET bid == st.batch_items[cr.chunk_id].bid
    IN [sessions |-> [st.sessions EXCEPT
                        ![sid].in_flight_bid = @ - bid,
                        ![sid].in_flight_chunks = @ - 1,
                        ![sid].remaining_bid = @ - bid,
                        ![sid].remaining_chunks = @ - 1,
                        ![sid].last_served_ms = now_ms],
        batch_items |-> [st.batch_items EXCEPT
                           ![cr.chunk_id].status = "SUCCESS",
                           ![cr.chunk_id].tx_id = cr.tx_id,
                           ![cr.chunk_id].error = ""]]

\* A commit_unwind that also spends the bid of a chunk that did not execute.
commit_unwind_spends(st, sid, cr) ==
    LET bid == st.batch_items[cr.chunk_id].bid
    IN [sessions |-> [st.sessions EXCEPT
                        ![sid].in_flight_bid = @ - bid,
                        ![sid].in_flight_chunks = @ - 1,
                        ![sid].remaining_bid = @ - bid,
                        ![sid].remaining_chunks = @ - 1],
        batch_items |-> [st.batch_items EXCEPT
                           ![cr.chunk_id].status = cr.status,
                           ![cr.chunk_id].tx_id = "",
                           ![cr.chunk_id].error = cr.reason]]

\* commit_batch, ChunkStatus::Failed | Skipped arm: the chunk row takes the
\* reported status and only the session's in_flight_* drop.
commit_unwind(st, sid, cr) ==
    LET bid == st.batch_items[cr.chunk_id].bid
    IN [sessions |-> [st.sessions EXCEPT
                        ![sid].in_flight_bid = @ - bid,
                        ![sid].in_flight_chunks = @ - 1],
        batch_items |-> [st.batch_items EXCEPT
                           ![cr.chunk_id].status = cr.status,
                           ![cr.chunk_id].tx_id = "",
                           ![cr.chunk_id].error = cr.reason]]

\* commit_batch: one ChunkResult applied to (sessions, batch_items);
\* rows that are no longer PENDING are skipped.
commit_chunk(st, sid, cr, now_ms) ==
    IF st.batch_items[cr.chunk_id].status # "PENDING" THEN st
    ELSE IF cr.status = "SUCCESS" THEN commit_success(st, sid, cr, now_ms)
    ELSE commit_unwind(st, sid, cr)

RECURSIVE commit_chunks(_, _, _, _)
commit_chunks(st, sid, chunk_results, now_ms) ==
    IF chunk_results = <<>> THEN st
    ELSE commit_chunks(commit_chunk(st, sid, Head(chunk_results), now_ms),
                       sid, Tail(chunk_results), now_ms)

\* commit_batch: optional cooldown of one UserResult,
\* cooldown_until_ms <- max(cooldown_until_ms, now + cooldown_ms).
\* A cooldown update that overwrites the stored value.
commit_cooldown_overwrites(sess, ur, now_ms) ==
    IF ur.cooldown_ms = None THEN sess
    ELSE [sess EXCEPT ![ur.session_id].cooldown_until_ms = now_ms + ur.cooldown_ms[1]]

\* The cooldown UPDATE of commit_batch for one user result.
commit_cooldown(sess, ur, now_ms) ==
    IF ur.cooldown_ms = None THEN sess
    ELSE LET until == now_ms + ur.cooldown_ms[1]
         IN [sess EXCEPT ![ur.session_id].cooldown_until_ms =
                           IF @ > until THEN @ ELSE until]

RECURSIVE commit_users(_, _, _)
commit_users(st, results, now_ms) ==
    IF results = <<>> THEN st
    ELSE LET ur == Head(results)
             st1 == [st EXCEPT !.sessions = commit_cooldown(st.sessions, ur, now_ms)]
         IN commit_users(commit_chunks(st1, ur.session_id, ur.chunk_results, now_ms),
                         Tail(results), now_ms)

\* A commit_batch without idempotency: the reported outcome of every chunk
\* is written onto its row whatever the batch and the row say.
commit_batch_unguarded(sess, bts, items, batch, results, now_ms) ==
    LET reported == UNION {{results[i].chunk_results[j] :
                              j \in 1..Len(results[i].chunk_results)} :
                            i \in 1..Len(results)}
        ids == {cr.chunk_id : cr \in reported}
        of(c) == CHOOSE cr \in reported : cr.chunk_id = c
    IN [sessions |-> sess,
        batches |-> [bts EXCEPT ![batch.batch_id].status = "COMMITTED"],
        batch_items |-> [c \in 1..Len(items) |->
                           IF c \in ids
                           THEN [items[c] EXCEPT !.status = of(c).status,
                                                 !.tx_id = of(c).tx_id,
                                                 !.error = of(c).reason]
                           ELSE items[c]]]

\* A commit_batch that takes only COMMITTED as already applied.
commit_batch_skips_committed_only(sess, bts, items, batch, results, now_ms) ==
    IF bts[batch.batch_id].status = "COMMITTED"
    THEN [sessions |-> sess, batches |-> bts, batch_items |-> items]
    ELSE
      LET st == commit_users([sessions |-> sess, batch_items |-> items], results, now_ms)
          touched_sessions == {results[i].session_id : i \in 1..Len(results)}
      IN [sessions |-> [sid \in DOMAIN st.sessions |->
                          IF sid \in touched_sessions
                          THEN [st.sessions[sid] EXCEPT !.has_pending_batch = FALSE]
                          ELSE st.sessions[sid]],
          batches |-> [bts EXCEPT ![batch.batch_id].status = "COMMITTED",
                                  ![batch.batch_id].reason = ""],
          batch_items |-> st.batch_items]

\* A commit_batch that applies the results whatever the batch status is.
commit_batch_no_status_check(sess, bts, items, batch, results, now_ms) ==
    LET st == commit_users([sessions |-> sess, batch_items |-> items], results, now_ms)
        touched_sessions == {results[i].session_id : i \in 1..Len(results)}
    IN [sessions |-> [sid \in DOMAIN st.sessions |->
                        IF sid \in touched_sessions
                        THEN [st.sessions[sid] EXCEPT !.has_pending_batch = FALSE]
                        ELSE st.sessions[sid]],
        batches |-> [bts EXCEPT ![batch.batch_id].status = "COMMITTED",
                                ![batch.batch_id].reason = ""],
        batch_items |-> st.batch_items]

\* SqlxSessionRepository::commit_batch as one transaction on the tables.
commit_batch(sess, bts, items, batch, results, now_ms) ==
    IF bts[batch.batch_id].status # "RESERVED"
    THEN [sessions |-> sess, batches |-> bts, batch_items |-> items]
    ELSE
      LET st == commit_users([sessions |-> sess, batch_items |-> items], results, now_ms)
          touched_sessions == {results[i].session_id : i \in 1..Len(results)}
      IN [sessions |-> [sid \in DOMAIN st.sessions |->
                          IF sid \in touched_sessions
                          THEN [st.sessions[sid] EXCEPT !.has_pending_batch = FALSE]
                          ELSE st.sessions[sid]],
          batches |-> [bts EXCEPT ![batch.batch_id].status = "COMMITTED",
                                  ![batch.batch_id].reason = ""],
          batch_items |-> st.batch_items]

\* A recovery that unwinds the sessions but writes no batch and no chunk
\* status.
recover_uncommitted_no_status_writes(sess, bts, items) ==
    LET reserved == {b \in 1..Len(bts) : bts[b].status = "RESERVED"}
        unwound(sid) == {c \in 1..Len(items) :
                            /\ items[c].batch_id \in reserved
                            /\ items[c].session_id = sid
                            /\ items[c].status = "PENDING"}
        BidOf(S) == SumSeq([i \in 1..Cardinality(S) |-> items[SetToSeq(S)[i]].bid])
    IN [sessions |-> [sid \in DOMAIN sess |->
                        [sess[sid] EXCEPT
                           !.in_flight_bid = @ - BidOf(unwound(sid)),
                           !.in_flight_chunks = @ - Cardinality(unwound(sid))]],
        batches |-> bts,
        batch_items |-> items]

\* recover_uncommitted: every RESERVED batch is aborted, each of its PENDING
\* chunks is unwound from its session's in_flight_* and marked SKIPPED with
\* reason RECOVERED, and has_pending_batch is cleared on every touched session.
recover_uncommitted(sess, bts, items) ==
    LET reserved == {b \in 1..Len(bts) : bts[b].status = "RESERVED"}
        unwound(sid) == {c \in 1..Len(items) :
                            /\ items[c].batch_id \in reserved
                            /\ items[c].session_id = sid
                            /\ items[c].status = "PENDING"}
        touched == {items[c].session_id : c \in {d \in 1..Len(items) :
                                                    items[d].batch_id \in reserved}}
        BidOf(S) == SumSeq([i \in 1..Cardinality(S) |-> items[SetToSeq(S)[i]].bid])
    IN [sessions |-> [sid \in DOMAIN sess |->
                        [sess[sid] EXCEPT
                           !.in_flight_bid = @ - BidOf(unwound(sid)),
                           !.in_flight_chunks = @ - Cardinality(unwound(sid)),
                           !.has_pending_batch = IF sid \in touched THEN FALSE ELSE @]],
        batches |-> [b \in 1..Len(bts) |->
                       IF b \in reserved
                       THEN [bts[b] EXCEPT !.status = "ABORTED", !.reason = "RECOVERED"]
                       ELSE bts[b]],
        batch_items |-> [c \in 1..Len(items) |->
                           IF items[c].batch_id \in reserved /\ items[c].status = "PENDING"
                           THEN [items[c] EXCEPT !.status = "SKIPPED",
                                                 !.error = "RECOVERED"]
                           ELSE items[c]]]

(* ---------------------------- Sizing planner --------------------------- *)
\* A split that emits the tail below min_chunk as a last chunk.
RECURSIVE split_into_chunks_keeps_tail(_, _, _)
split_into_chunks_keeps_tail(total, max_chunk, min_chunk) ==
    IF total < min_chunk THEN (IF total > 0 THEN <<total>> ELSE <<>>)
    ELSE LET c == Min(total, max_chunk)
         IN <<c>> \o split_into_chunks_keeps_tail(total - c, max_chunk, min_chunk)

RECURSIVE split_into_chunks(_, _, _)
split_into_chunks(total, max_chunk, min_chunk) ==
    IF total < min_chunk THEN <<>>
    ELSE LET c == Min(total, max_chunk)
         IN <<c>> \o split_into_chunks(total - c, max_chunk, min_chunk)

\* A planner loop that caps each user by the per-user limit only, not by
\* the remaining global budget.
RECURSIVE plan_loop_ignores_budget(_, _, _, _)
plan_loop_ignores_budget(intents, remaining_budget, policy, out) ==
    IF intents = <<>> \/ remaining_budget < policy.min_chunk_bid THEN out
    ELSE
      LET u == Head(intents)
          want == u.desired_bid
          allow == Min(want, policy.max_bid_per_user_per_tick)
          chunks == split_into_chunks(allow, policy.max_chunk_bid, policy.min_chunk_bid)
      IN IF want < policy.min_chunk_bid \/ allow < policy.min_chunk_bid \/ chunks = <<>>
         THEN plan_loop_ignores_budget(Tail(intents), remaining_budget, policy, out)
         ELSE plan_loop_ignores_budget(Tail(intents),
                        SaturatingSub(remaining_budget, SumSeq(chunks)),
                        policy,
                        Append(out, [session_id |-> u.session_id,
                                     total_bid |-> SumSeq(chunks),
                                     chunks |-> chunks]))

\* The loop of derive_execution_plan over the intents (first fit).
RECURSIVE plan_loop(_, _, _, _)
plan_loop(intents, remaining_budget, policy, out) ==
    IF intents = <<>> \/ remaining_budget < policy.min_chunk_bid THEN out
    ELSE
      LET u == Head(intents)
          want == u.desired_bid
          allow == Min(Min(want, policy.max_bid_per_user_per_tick), remaining_budget)
          chunks == split_into_chunks(allow, policy.max_chunk_bid, policy.min_chunk_bid)
      IN IF want < policy.min_chunk_bid \/ allow < policy.min_chunk_bid \/ chunks = <<>>
         THEN plan_loop(Tail(intents), remaining_budget, policy, out)
         ELSE plan_loop(Tail(intents),
                        SaturatingSub(remaining_budget, SumSeq(chunks)),
                        policy,
                        Append(out, [session_id |-> u.session_id,
                                     total_bid |-> SumSeq(chunks),
                                     chunks |-> chunks]))

\* SizingPolicy::default(). depth_utilization is the fraction num / den of
\* the depth; 0.25 is 1 / 4.
SizingPolicy_default ==
    [hard_max_total_bid_per_tick |-> HardMaxTotalBidPerTick,
     depth_utilization |-> [num |-> 1, den |-> DepthUtilizationDivisor],
     max_bid_per_user_per_tick |-> MaxBidPerUserPerTick,
     max_chunk_bid |-> MaxChunkBid,
     min_chunk_bid |-> MinChunkBid]

\* (depth_now_in as f64 * depth_utilization).floor().max(0.0) as u128. The
\* depths of the model are below 2^31 and the fractions are powers of two,
\* so the f64 product is exact.
depth_cap(market, policy) ==
    (market.depth_now_in * policy.depth_utilization.num)
        \div policy.depth_utilization.den

derive_execution_plan(market, intents, policy) ==
    LET total_cap == Min(depth_cap(market, policy), policy.hard_max_total_bid_per_tick)
    IN IF intents = <<>> \/ total_cap < policy.min_chunk_bid THEN <<>>
       ELSE plan_loop(intents, total_cap, policy, <<>>)

(* ------------------------------ Scheduler ------------------------------ *)
\* Gate A / Gate B comparison of a snapshot with a session's constraints.
constraints_ok(sid, m) ==
    /\ m.spread_bps <= Intent(sid).max_spread_bps
    /\ m.trend_drop_bps <= Intent(sid).max_trend_drop_bps
    /\ m.slippage_bps <= Intent(sid).max_slippage_bps

\* A load_next_page that keeps the offset when the page is empty.
load_next_page_no_wrap(c, offset, sess, page_size) ==
    LET rows == fetch_page(sess, page_size, offset)
        RECURSIVE ups(_, _)
        ups(cc, q) == IF q = <<>> THEN cc
                      ELSE ups(upsert(cc, Head(q), sess[Head(q)]), Tail(q))
    IN IF rows = <<>> THEN [cache |-> c, last_offset |-> offset]
       ELSE [cache |-> ups(c, rows), last_offset |-> offset + page_size]

\* SessionStore::load_next_page on (cache, last_offset) with the sessions table.
load_next_page(c, offset, sess, page_size) ==
    LET rows == fetch_page(sess, page_size, offset)
        RECURSIVE ups(_, _)
        ups(cc, q) == IF q = <<>> THEN cc
                      ELSE ups(upsert(cc, Head(q), sess[Head(q)]), Tail(q))
    IN IF rows = <<>> THEN [cache |-> c, last_offset |-> 0]
       ELSE [cache |-> ups(c, rows), last_offset |-> offset + page_size]

\* SessionStore::ensure_candidates.
ensure_candidates(c, offset, sess, min_needed, page_size) ==
    IF Len(c.ring) >= min_needed THEN [cache |-> c, last_offset |-> offset]
    ELSE load_next_page(c, offset, sess, page_size)

\* A selection loop without the served_this_tick check.
RECURSIVE pick_loop_serves_again(_, _)
pick_loop_serves_again(st, now_ms) ==
    IF ~(st.attempts < MaxAttempts /\ Len(st.out) < MaxUsersPerBatch) THEN st
    ELSE IF st.cache.ring = <<>> THEN st
    ELSE
      LET sid == Head(st.cache.ring)
          rotated == [st.cache EXCEPT !.ring = Append(Tail(st.cache.ring), sid)]
          st0 == [st EXCEPT !.attempts = @ + 1, !.cache = rotated]
      IN IF sid \notin DOMAIN st.cache.map
         THEN pick_loop_serves_again(st0, now_ms)
         ELSE
           LET s0 == st.cache.map[sid]
               s1 == accumulate_credit(sid, s0)
               want == Min(Min(Intent(sid).preferred_chunk_bid,
                               Intent(sid).max_bid_per_tick), available_bid(s1))
           IN IF want = 0 \/ ~can_serve(s1, want)
              THEN pick_loop_serves_again([st0 EXCEPT !.cache = upsert(rotated, sid, s1)],
                                          now_ms)
              ELSE
                LET s2 == [charge(s1, want) EXCEPT !.last_served_ms = now_ms]
                IN pick_loop_serves_again(
                     [cache |-> upsert(rotated, sid, s2),
                      sessions |-> persist_fairness(st.sessions, sid, s2.deficit,
                                                    s2.last_served_ms),
                      out |-> Append(st.out,
                                     [session_id |-> sid, desired_bid |-> want,
                                      desired_chunks |-> Min(1, available_chunks(s2))]),
                      served_this_tick |-> st.served_this_tick \cup {sid},
                      attempts |-> st0.attempts],
                     now_ms)

\* The while loop of Scheduler::pick_intents.
\* st = [cache, sessions, out, served_this_tick, attempts].
RECURSIVE pick_loop(_, _)
pick_loop(st, now_ms) ==
    IF ~(st.attempts < MaxAttempts /\ Len(st.out) < MaxUsersPerBatch) THEN st
    ELSE IF st.cache.ring = <<>> THEN st
    ELSE
      LET sid == Head(st.cache.ring)
          rotated == [st.cache EXCEPT !.ring = Append(Tail(st.cache.ring), sid)]
          st0 == [st EXCEPT !.attempts = @ + 1, !.cache = rotated]
      IN IF sid \notin DOMAIN st.cache.map \/ sid \in st.served_this_tick
         THEN pick_loop(st0, now_ms)
         ELSE
           LET s0 == st.cache.map[sid]
               s1 == accumulate_credit(sid, s0)
               want == Min(Min(Intent(sid).preferred_chunk_bid,
                               Intent(sid).max_bid_per_tick), available_bid(s1))
           IN IF want = 0 \/ ~can_serve(s1, want)
              THEN pick_loop([st0 EXCEPT !.cache = upsert(rotated, sid, s1)], now_ms)
              ELSE
                LET s2 == [charge(s1, want) EXCEPT !.last_served_ms = now_ms]
                IN pick_loop(
                     [cache |-> upsert(rotated, sid, s2),
                      sessions |-> persist_fairness(st.sessions, sid, s2.deficit,
                                                    s2.last_served_ms),
                      out |-> Append(st.out,
                                     [session_id |-> sid, desired_bid |-> want,
                                      desired_chunks |-> Min(1, available_chunks(s2))]),
                      served_this_tick |-> st.served_this_tick \cup {sid},
                      attempts |-> st0.attempts],
                     now_ms)

pick_intents(c, sess, market, now_ms) ==
    pick_loop([cache |-> c, sessions |-> sess, out |-> <<>>, served_this_tick |-> {},
               attempts |-> 0], now_ms)

\* drr::sum_reserved followed by the cache write-back of on_tick.
RECURSIVE mark_reserved(_, _, _)
mark_reserved(c, users, now_ms) ==
    IF users = <<>> THEN c
    ELSE LET u == Head(users)
             total_bid == SumSeq([i \in 1..Len(u.chunks) |-> u.chunks[i].bid])
             c1 == IF u.session_id \in DOMAIN c.map
                   THEN upsert(c, u.session_id,
                               [c.map[u.session_id] EXCEPT
                                  !.last_served_ms = now_ms,
                                  !.in_flight_bid = @ + total_bid,
                                  !.in_flight_chunks = @ + Len(u.chunks),
                                  !.has_pending_batch = TRUE])
                   ELSE c
         IN mark_reserved(c1, Tail(users), now_ms)

\* on_tick, after the reservation: the cache write-back for the reserved
\* users and everything the tick leaves behind.  pk is the result of
\* pick_intents, rs the result of the reservation.
on_tick_reserved(offset, pk, rs, now_ms) ==
    [cache |-> IF rs.batch = None THEN pk.cache
               ELSE mark_reserved(pk.cache, rs.batch[1].users, now_ms),
     last_offset |-> offset,
     sessions |-> rs.sessions,
     batches |-> rs.batches,
     batch_items |-> rs.batch_items,
     batch |-> rs.batch,
     intents |-> pk.out]

\* on_tick, the reservation of a plan: an empty plan ends the tick without
\* touching the repository.
on_tick_reserve(sess, bts, items, pair_id, now_ms, allocations) ==
    IF allocations = <<>>
    THEN [sessions |-> sess, batches |-> bts, batch_items |-> items, batch |-> None]
    ELSE reserve_execution(sess, bts, items, pair_id, now_ms, allocations)

\* on_tick, after pick_intents: plan, reserve, write back.
on_tick_intents(offset, pk, bts, items, pair_id, market, now_ms) ==
    on_tick_reserved(offset, pk,
                     on_tick_reserve(pk.sessions, bts, items, pair_id, now_ms,
                                     derive_execution_plan(market, pk.out, SizingPolicy_default)),
                     now_ms)

\* on_tick, after ensure_candidates: intent selection on the warmed cache.
on_tick_candidates(ec, sess, bts, items, pair_id, market, now_ms) ==
    on_tick_intents(ec.last_offset, pick_intents(ec.cache, sess, market, now_ms),
                    bts, items, pair_id, market, now_ms)

\* Scheduler::on_tick as a function of the state it reads; the result holds
\* every piece of state it writes and the batch it sends, if any.
on_tick_with(c, offset, sess, bts, items, pair_id, market, now_ms, candidate_min, page_size) ==
    on_tick_candidates(ensure_candidates(c, offset, sess, candidate_min, page_size),
                       sess, bts, items, pair_id, market, now_ms)

\* on_tick of a scheduler constructed with candidate_min = CandidateMin on
\* a store with the page size of SessionStore::new.
on_tick(c, offset, sess, bts, items, pair_id, market, now_ms) ==
    on_tick_with(c, offset, sess, bts, items, pair_id, market, now_ms, CandidateMin,
                 PageSize)

\* An on_tick that undoes the reservation when the send fails.
on_tick_send_unwinds(chan, open, r) ==
    IF r.batch # None /\ ~open
    THEN [exec_chan |-> chan,
          sessions |-> recover_uncommitted(r.sessions, r.batches, r.batch_items).sessions,
          batches |-> recover_uncommitted(r.sessions, r.batches, r.batch_items).batches,
          batch_items |->
              recover_uncommitted(r.sessions, r.batches, r.batch_items).batch_items]
    ELSE [exec_chan |-> IF r.batch # None THEN Append(chan, r.batch[1]) ELSE chan,
          sessions |-> r.sessions, batches |-> r.batches,
          batch_items |-> r.batch_items]

\* The end of on_tick: exec_tx.send(Reserved(batch)).  On an open channel
\* the batch is enqueued; when the receiver is gone the send fails, a
\* warning is logged and the tick returns Ok with nothing else done.
on_tick_send(chan, open, r) ==
    [exec_chan |-> IF r.batch # None /\ open THEN Append(chan, r.batch[1]) ELSE chan,
     sessions |-> r.sessions, batches |-> r.batches, batch_items |-> r.batch_items]

(* ------------------------------- Executor ------------------------------ *)
\* Gate B: a missing snapshot fails closed.
gate_b_ok(sid, market) ==
    IF market = None THEN FALSE ELSE constraints_ok(sid, market[1])

\* str::contains.
contains(str, pat) ==
    \E i \in 1..(Len(str) - Len(pat) + 1) : SubSeq(str, i, i + Len(pat) - 1) = pat

\* classify_error on the message of the error.
classify_error(e) ==
    IF contains(e, "MarketNotOpen") THEN "MarketNotOpen"
    ELSE IF contains(e, "Slippage") THEN "Slippage"
    ELSE IF contains(e, "InsufficientLiquidity") THEN "InsufficientLiquidity"
    ELSE IF Len(e) > ErrMax THEN "ERR:" \o SubSeq(e, 1, ErrMax)
    ELSE e

\* A worker that attaches the failure cooldown to every user.
failure_cooldown_always(any_failed) == Some(DefaultFailureCooldownMs)

\* any_failed.then_some(default_failure_cooldown_ms).
failure_cooldown(any_failed) ==
    IF any_failed THEN Some(DefaultFailureCooldownMs) ELSE None

\* A receive that takes the newest queued value.
recv_newest(chan) == [value |-> chan[Len(chan)], rest |-> SubSeq(chan, 1, Len(chan) - 1)]

\* mpsc::Receiver::recv on a non-empty channel: the oldest value.
recv(chan) == [value |-> Head(chan), rest |-> Tail(chan)]

IdleWorker ==
    [pc |-> "idle", batch |-> None, market |-> None, user |-> 1, chunk |-> 1,
     chunk_results |-> <<>>, results |-> <<>>]

\* The UserResult pushed when the handling of one user ends, and the move
\* to the next user (or to the commit point after the last user).
finish_user(w, chunk_results, cooldown_ms) ==
    LET b == w.batch[1]
        ur == [session_id |-> b.users[w.user].session_id,
               chunk_results |-> chunk_results,
               cooldown_ms |-> cooldown_ms]
    IN [w EXCEPT !.results = Append(@, ur),
                 !.chunk_results = <<>>,
                 !.chunk = 1,
                 !.user = @ + 1,
                 !.pc = IF w.user + 1 > Len(b.users) THEN "commit" ELSE "users"]

\* Every chunk of a user marked SKIPPED with one reason.
all_skipped(chunks, reason) ==
    [i \in 1..Len(chunks) |->
       [chunk_id |-> chunks[i].chunk_id, status |-> "SKIPPED", tx_id |-> "",
        reason |-> reason]]

(* ----------------- components exercised on their own ------------------- *)
\* The pairs routed by a PairExecutorRouter that serves more than one pair.
Pairs == {"TON/STON", "TON/USDT"}

\* PairExecutorRouter::new, with the state of the channels it works on: rx is
\* the router's input channel, sending the batch it holds between having
\* received it and the return of tx.send(batch).await, pair_txs the pairs
\* with a cached sender; per pair, queue is the worker's channel, alive
\* whether its receiver exists, running the batch the worker executes and
\* spawned the number of workers created so far.  status is the batch status
\* in the database, executed the batches run to the end, in order, and
\* dropped the batches whose send failed.
RouterInit ==
    [rx |-> <<>>, sending |-> None, pair_txs |-> {},
     queue |-> [p \in Pairs |-> <<>>],
     alive |-> [p \in Pairs |-> FALSE],
     running |-> [p \in Pairs |-> None],
     spawned |-> [p \in Pairs |-> 0],
     status |-> [b \in 1..MaxRouted |-> "NONE"],
     executed |-> <<>>, dropped |-> {}, sent |-> 0]

\* get_or_spawn_worker: the cached sender on the fast path; otherwise a new
\* channel whose sender is cached and whose receiver goes to a new worker.
get_or_spawn_worker(r, pair_id) ==
    IF pair_id \in r.pair_txs
    THEN r
    ELSE [r EXCEPT !.pair_txs = @ \cup {pair_id},
                   !.queue[pair_id] = <<>>,
                   !.alive[pair_id] = TRUE,
                   !.running[pair_id] = None,
                   !.spawned[pair_id] = @ + 1]

send_failed_keeps_sender(r, batch) ==
    [r EXCEPT !.sending = None, !.dropped = @ \cup {batch}]

\* The branch of run taken when tx.send(batch).await is an error: the batch
\* is dropped with the error and the cached sender is removed.
send_failed(r, batch) ==
    [r EXCEPT !.sending = None, !.dropped = @ \cup {batch},
              !.pair_txs = @ \ {batch.pair_id}]

\* SessionCache::new: nothing cached.  evicted records the entry removed by
\* the latest eviction.
CacheInit == [map |-> <<>>, ring |-> <<>>, evicted |-> None]

\* Ids of the sessions offered to the small cache: one more than it holds.
CacheIds == 1..(SmallMaxCached + 1)

\* The fields of a cached session the cache itself reads: state.deficit and
\* state.last_served_ms.
CacheEntries == [deficit : {0, MinChunkBid}, last_served_ms : {0, TickIntervalMs}]

\* RollingWindow::new.  pushed is the history of the samples pushed.
WindowInit == [values |-> <<>>, max_queue |-> <<>>, max_age_ms |-> DefaultMaxAgeMs,
               pushed |-> <<>>]

\* An evict_old that leaves max_queue alone.
RECURSIVE evict_old_keeps_max_queue(_, _)
evict_old_keeps_max_queue(w, now_ms) ==
    IF w.values = <<>> THEN w
    ELSE IF now_ms - Head(w.values).ts_ms > w.max_age_ms
    THEN evict_old_keeps_max_queue([w EXCEPT !.values = Tail(@)], now_ms)
    ELSE w

\* RollingWindow::evict_old: drops the values older than max_age_ms from the
\* front, and with each the front of max_queue when it has the same ts_ms.
RECURSIVE evict_old(_, _)
evict_old(w, now_ms) ==
    IF w.values = <<>> THEN w
    ELSE IF now_ms - Head(w.values).ts_ms > w.max_age_ms
    THEN evict_old([w EXCEPT
                      !.values = Tail(@),
                      !.max_queue =
                         IF @ # <<>> /\ Head(@).ts_ms = Head(w.values).ts_ms
                         THEN Tail(@) ELSE @],
                   now_ms)
    ELSE w

\* The loop of push that pops from the back of max_queue every value below
\* the new price.
RECURSIVE pop_smaller(_, _)
pop_smaller(q, price) ==
    IF q # <<>> /\ q[Len(q)].value < price
    THEN pop_smaller(SubSeq(q, 1, Len(q) - 1), price)
    ELSE q

\* RollingWindow::push.
push(w, ts_ms, price) ==
    evict_old([w EXCEPT
                 !.values = Append(@, [ts_ms |-> ts_ms, value |-> price]),
                 !.max_queue = Append(pop_smaller(@, price),
                                      [ts_ms |-> ts_ms, value |-> price])],
              ts_ms)

\* RollingWindow::max, latest and is_empty.
max(w) == IF w.max_queue = <<>> THEN None ELSE Some(Head(w.max_queue).value)

latest(w) == IF w.values = <<>> THEN None ELSE Some(w.values[Len(w.values)].value)

is_empty(w) == w.values = <<>>

(* ------------------------------- actions ------------------------------- *)
Init ==
    /\ \E q \in SlowQuanta :
          sessions = [sid \in SessionIds |->
                        IF sid % 2 = 0 THEN [InitialState(sid) EXCEPT !.quantum = q]
                        ELSE InitialState(sid)]
    /\ batches = <<>>
    /\ batch_items = <<>>
    /\ cache_map = <<>>
    /\ rr = <<>>
    /\ last_offset = 0
    /\ market_view = None
    /\ exec_chan = <<>>
    /\ exec_open = TRUE
    /\ worker_q = <<>>
    /\ worker = IdleWorker
    /\ now = 0
    /\ restarts = 0
    /\ swapped = [sid \in SessionIds |-> 0]
    /\ last_commit = None
    /\ recommits = 0
    /\ plan_call = None
    /\ router = RouterInit
    /\ bounded_cache = CacheInit
    /\ window = WindowInit
    /\ reserve_call = None

\* The state after construction on a sessions table in which the odd
\* sessions were inserted with a cooldown that ends later than any cooldown
\* a commit of this run can grant.
InitCooldown ==
    /\ \E q \in SlowQuanta :
          sessions = [sid \in SessionIds |->
                        IF sid % 2 = 0 THEN [InitialState(sid) EXCEPT !.quantum = q]
                        ELSE [InitialState(sid) EXCEPT
                                !.cooldown_until_ms = 3 * DefaultFailureCooldownMs]]
    /\ batches = <<>>
    /\ batch_items = <<>>
    /\ cache_map = <<>>
    /\ rr = <<>>
    /\ last_offset = 0
    /\ market_view = None
    /\ exec_chan = <<>>
    /\ exec_open = TRUE
    /\ worker_q = <<>>
    /\ worker = IdleWorker
    /\ now = 0
    /\ restarts = 0
    /\ swapped = [sid \in SessionIds |-> 0]
    /\ last_commit = None
    /\ recommits = 0
    /\ plan_call = None
    /\ router = RouterInit
    /\ bounded_cache = CacheInit
    /\ window = WindowInit
    /\ reserve_call = None

\* The market feed task: MarketViewStore::set, last write wins.
MarketSet(v) ==
    /\ market_view' = Some(v)
    /\ UNCHANGED <<aux_vars, sessions, batches, batch_items, cache_map, rr, last_offset,
                   exec_chan, exec_open, worker_q, worker, now, restarts, swapped,
                   last_commit, recommits>>

\* Wall-clock time passes.
AdvanceClock ==
    /\ \E t \in ClockInstants : t > now /\ now' = t
    /\ UNCHANGED <<aux_vars, sessions, batches, batch_items, cache_map, rr, last_offset,
                   market_view, exec_chan, exec_open, worker_q, worker, restarts, swapped,
                   last_commit, recommits>>

\* One iteration of the scheduler loop of main.rs: skipped without a market
\* snapshot, otherwise Scheduler::on_tick with the latest snapshot.
TickWith(candidate_min, page_size) ==
    /\ market_view # None
    /\ Len(batches) < MaxBatches
    /\ \E r \in {on_tick_with([map |-> cache_map, ring |-> rr], last_offset, sessions,
                              batches, batch_items, PAIR, market_view[1], now,
                              candidate_min, page_size)} :
          /\ cache_map' = r.cache.map
          /\ rr' = r.cache.ring
          /\ last_offset' = r.last_offset
          /\ \E o \in {on_tick_send(exec_chan, exec_open, r)} :
                /\ sessions' = o.sessions
                /\ batches' = o.batches
                /\ batch_items' = o.batch_items
                /\ exec_chan' = o.exec_chan
    /\ UNCHANGED <<aux_vars, exec_open, market_view, worker_q, worker, now, restarts, swapped,
                   last_commit, recommits>>

Tick == TickWith(CandidateMin, PageSize)

\* PairExecutorRouter::run: one event forwarded to the worker of its pair.
RouterDeliver ==
    /\ exec_open
    /\ exec_chan # <<>>
    /\ worker_q' = Append(worker_q, recv(exec_chan).value)
    /\ exec_chan' = recv(exec_chan).rest
    /\ UNCHANGED <<aux_vars, exec_open, sessions, batches, batch_items, cache_map, rr, last_offset,
                   market_view, worker, now, restarts, swapped,
                   last_commit, recommits>>

\* ExecutorWorker::run receives the next batch and enters execute_batch.
WorkerRecv ==
    /\ worker.pc = "idle"
    /\ worker_q # <<>>
    /\ worker' = [IdleWorker EXCEPT
                    !.pc = IF recv(worker_q).value.users = <<>> THEN "commit"
                           ELSE "users",
                    !.batch = Some(recv(worker_q).value)]
    /\ worker_q' = recv(worker_q).rest
    /\ UNCHANGED <<aux_vars, sessions, batches, batch_items, cache_map, rr, last_offset,
                   market_view, exec_chan, exec_open, now, restarts, swapped,
                   last_commit, recommits>>

\* execute_batch: the next chunk of the current user.  The market snapshot
\* is read once, on entry (here: together with the first chunk of the first
\* user, so that no feed update falls between that read and the first
\* call).  On a user's first chunk the session is loaded (cache, then
\* repository) and checked for being active; then Gate B against the
\* snapshot read on entry, then the call to execute_swap, whose outcome is
\* chosen by the external executor.  store is the content, for the pair, of
\* the MarketViewStore the worker was constructed with.
WorkerChunkFrom(outcome, store) ==
    /\ worker.pc = "users"
    /\ LET b == worker.batch[1]
           u == b.users[worker.user]
           sid == u.session_id
           ch == u.chunks[worker.chunk]
           market == IF worker.user = 1 /\ worker.chunk = 1 THEN store
                     ELSE worker.market
           w == [worker EXCEPT !.market = market]
           cached == sid \in DOMAIN cache_map
           found == cached \/ sid \in DOMAIN sessions
           session == IF cached THEN cache_map[sid] ELSE sessions[sid]
           c1 == IF worker.chunk = 1 /\ ~cached /\ found
                 THEN upsert([map |-> cache_map, ring |-> rr], sid, session)
                 ELSE [map |-> cache_map, ring |-> rr]
       IN /\ cache_map' = c1.map
          /\ rr' = c1.ring
          /\ IF worker.chunk = 1 /\ ~found
             THEN /\ worker' = finish_user(w,
                                           all_skipped(u.chunks, "SESSION_NOT_FOUND"),
                                           Some(SessionNotFoundCooldownMs))
                  /\ UNCHANGED swapped
             ELSE IF worker.chunk = 1 /\ ~session.active
             THEN /\ worker' = finish_user(w,
                                           all_skipped(u.chunks, "SESSION_INACTIVE"),
                                           None)
                  /\ UNCHANGED swapped
             ELSE IF ~gate_b_ok(sid, market)
             THEN /\ worker' = finish_user(
                                 w,
                                 Append(worker.chunk_results,
                                        [chunk_id |-> ch.chunk_id, status |-> "SKIPPED",
                                         tx_id |-> "", reason |-> "GATE_B_CONSTRAINTS"]),
                                 failure_cooldown(FALSE))
                  /\ UNCHANGED swapped
             ELSE /\ IF outcome = "ok"
                     THEN /\ swapped' = [swapped EXCEPT ![sid] = @ + ch.bid]
                          /\ LET crs == Append(worker.chunk_results,
                                               [chunk_id |-> ch.chunk_id,
                                                status |-> "SUCCESS", tx_id |-> "tx",
                                                reason |-> ""])
                             IN worker' = IF worker.chunk = Len(u.chunks)
                                          THEN finish_user(w, crs, failure_cooldown(FALSE))
                                          ELSE [w EXCEPT !.chunk_results = crs,
                                                              !.chunk = @ + 1]
                     ELSE /\ swapped' = swapped
                          /\ worker' = finish_user(
                                         w,
                                         Append(worker.chunk_results,
                                                [chunk_id |-> ch.chunk_id,
                                                 status |-> "FAILED", tx_id |-> "",
                                                 reason |-> classify_error(outcome)]),
                                         failure_cooldown(TRUE))
    /\ UNCHANGED <<aux_vars, sessions, batches, batch_items, last_offset, market_view, exec_chan, exec_open,
                   worker_q, now, restarts, last_commit, recommits>>

\* The worker of main.rs shares the market view store of the feed and the
\* scheduler loop.
WorkerChunk(outcome) == WorkerChunkFrom(outcome, market_view)

\* execute_batch: the single commit point; the transaction commits.
WorkerCommit ==
    /\ worker.pc = "commit"
    /\ LET r == commit_batch(sessions, batches, batch_items, worker.batch[1],
                             worker.results, now)
       IN /\ sessions' = r.sessions
          /\ batches' = r.batches
          /\ batch_items' = r.batch_items
    /\ last_commit' = Some([batch |-> worker.batch[1], results |-> worker.results,
                            done |-> TRUE])
    /\ worker' = IdleWorker
    /\ UNCHANGED <<aux_vars, cache_map, rr, last_offset, market_view, exec_chan, exec_open, worker_q, now,
                   restarts, swapped, recommits>>

WorkerCommitFailRetries ==
    /\ worker.pc = "commit"
    /\ worker.batch[1].users # <<>>
    /\ last_commit' = Some([batch |-> worker.batch[1], results |-> worker.results,
                            done |-> FALSE])
    /\ worker' = [IdleWorker EXCEPT !.pc = "users", !.batch = worker.batch,
                                    !.market = worker.market]
    /\ UNCHANGED <<aux_vars, sessions, batches, batch_items, cache_map, rr, last_offset,
                   market_view, exec_chan, exec_open, worker_q, now, restarts, swapped,
                   recommits>>

\* execute_batch: commit_batch returns an error (database unavailable); the
\* transaction is rolled back, the worker logs and takes the next batch.
WorkerCommitFail ==
    /\ worker.pc = "commit"
    /\ last_commit' = Some([batch |-> worker.batch[1], results |-> worker.results,
                            done |-> FALSE])
    /\ worker' = IdleWorker
    /\ UNCHANGED <<aux_vars, sessions, batches, batch_items, cache_map, rr, last_offset,
                   market_view, exec_chan, exec_open, worker_q, now, restarts, swapped,
                   recommits>>

\* The process stops at an arbitrary point and is started again: all
\* volatile state is lost and init_store runs recover_uncommitted before any
\* task is spawned.
Restart ==
    /\ restarts < MaxRestarts
    /\ restarts' = restarts + 1
    /\ LET r == recover_uncommitted(sessions, batches, batch_items)
       IN /\ sessions' = r.sessions
          /\ batches' = r.batches
          /\ batch_items' = r.batch_items
    /\ cache_map' = <<>>
    /\ rr' = <<>>
    /\ last_offset' = 0
    /\ market_view' = None
    /\ exec_chan' = <<>>
    /\ exec_open' = TRUE
    /\ worker_q' = <<>>
    /\ worker' = IdleWorker
    /\ UNCHANGED <<aux_vars, now, swapped, last_commit, recommits>>

\* commit_batch called once more with the arguments of an earlier call
\* that committed.
CommitAgain ==
    /\ last_commit # None
    /\ last_commit[1].done
    /\ recommits < MaxRecommits
    /\ recommits' = recommits + 1
    /\ LET r == commit_batch(sessions, batches, batch_items, last_commit[1].batch,
                             last_commit[1].results, now)
       IN /\ sessions' = r.sessions
          /\ batches' = r.batches
          /\ batch_items' = r.batch_items
    /\ UNCHANGED <<aux_vars, cache_map, rr, last_offset, market_view, exec_chan, exec_open, worker_q, worker,
                   now, restarts, swapped, last_commit>>

Next ==
    \/ \E v \in MarketViews : MarketSet(v)
    \/ AdvanceClock
    \/ Tick
    \/ RouterDeliver
    \/ WorkerRecv
    \/ \E outcome \in SwapOutcomes : WorkerChunk(outcome)
    \/ WorkerCommit
    \/ WorkerCommitFail
    \/ Restart

Spec == Init /\ [][Next]_vars

\* The program with a worker constructed on a market view store of its own
\* that nothing publishes to (ExecutorWorker::new(store, MarketViewStore::new(),
\* ...)): execute_batch finds no snapshot for the pair.
NextNoSnapshot ==
    \/ \E v \in MarketViews : MarketSet(v)
    \/ AdvanceClock
    \/ Tick
    \/ RouterDeliver
    \/ WorkerRecv
    \/ \E outcome \in SwapOutcomes : WorkerChunkFrom(outcome, None)
    \/ WorkerCommit
    \/ WorkerCommitFail
    \/ Restart

SpecNoSnapshot == Init /\ [][NextNoSnapshot]_vars

\* The router task ends (its receiver is dropped): events still buffered in
\* the channel are never received, batches already handed to the worker
\* stay with the worker.
RouterStop ==
    /\ exec_open
    /\ exec_open' = FALSE
    /\ UNCHANGED <<aux_vars, sessions, batches, batch_items, cache_map, rr, last_offset,
                   market_view, exec_chan, worker_q, worker, now, restarts, swapped,
                   last_commit, recommits>>

\* The program in which the router may stop.
NextRouterDown == Next \/ RouterStop

SpecRouterDown == Init /\ [][NextRouterDown]_vars

\* commit_batch called for the worker's batch with a results payload that
\* leaves out one of the batch's users (a caller of the repository other
\* than execute_batch, which reports every user).
CommitPartial ==
    /\ worker.pc = "commit"
    /\ Len(worker.results) >= 2
    /\ \E k \in 1..Len(worker.results) :
          \E res \in {SubSeq(worker.results, 1, k - 1)
                        \o SubSeq(worker.results, k + 1, Len(worker.results))} :
             /\ last_commit' = Some([batch |-> worker.batch[1], results |-> res,
                                     done |-> TRUE])
             /\ \E r \in {commit_batch(sessions, batches, batch_items,
                                       worker.batch[1], res, now)} :
                   /\ sessions' = r.sessions
                   /\ batches' = r.batches
                   /\ batch_items' = r.batch_items
    /\ worker' = IdleWorker
    /\ UNCHANGED <<aux_vars, cache_map, rr, last_offset, market_view, exec_chan, exec_open,
                   worker_q, now, restarts, swapped, recommits>>

\* The program together with commit_batch calls on partial payloads.
NextPartial == Next \/ CommitPartial

SpecPartial == Init /\ [][NextPartial]_vars

\* The program together with repeated commit_batch calls.
NextRecommit == Next \/ CommitAgain

SpecRecommit == Init /\ [][NextRecommit]_vars

\* commit_batch called again with the arguments of an earlier call that
\* returned an error, whatever happened to the batch in between.
CommitRetry ==
    /\ last_commit # None
    /\ ~last_commit[1].done
    /\ recommits < MaxRecommits
    /\ recommits' = recommits + 1
    /\ last_commit' = Some([last_commit[1] EXCEPT !.done = TRUE])
    /\ \E r \in {commit_batch(sessions, batches, batch_items, last_commit[1].batch,
                              last_commit[1].results, now)} :
          /\ sessions' = r.sessions
          /\ batches' = r.batches
          /\ batch_items' = r.batch_items
    /\ UNCHANGED <<aux_vars, cache_map, rr, last_offset, market_view, exec_chan, exec_open, worker_q, worker,
                   now, restarts, swapped>>

\* The scheduler loop can run an iteration: a snapshot is published (and
\* the run has batches left to create).
TickCanRun == market_view # None /\ Len(batches) < MaxBatches

\* An iteration of the scheduler loop, seen through the paging cursor: with
\* fewer cached sessions than candidate_min every on_tick goes through
\* load_next_page, which moves last_offset one page forward or back to 0.
TickPages ==
    /\ TickCanRun
    /\ restarts' = restarts
    /\ last_offset' = IF last_offset = 0 THEN PageSize ELSE 0

\* The program with its scheduler loop running forever: the ticker of
\* start_scheduler_loop fires every tick interval, so an iteration that can
\* run does run.
SpecLive == Init /\ [][Next]_vars /\ WF_<<last_offset, restarts>>(TickPages)

\* The program together with repeated and retried commit_batch calls.
NextReplay == NextRecommit \/ CommitRetry

SpecReplay == Init /\ [][NextReplay]_vars

\* Repeated and retried commits on a table with cooldowns already set.
SpecCooldown == InitCooldown /\ [][NextReplay]_vars

\* The program with a scheduler whose candidate_min is the number of
\* sessions in the table: once the first page is cached the RR ring is not
\* below candidate_min and ensure_candidates returns without loading.
WarmCandidateMin == Cardinality(SessionIds)

TickWarm == TickWith(WarmCandidateMin, PageSize)

NextWarm ==
    \/ \E v \in MarketViews : MarketSet(v)
    \/ AdvanceClock
    \/ TickWarm
    \/ RouterDeliver
    \/ WorkerRecv
    \/ \E outcome \in SwapOutcomes : WorkerChunk(outcome)
    \/ WorkerCommit
    \/ WorkerCommitFail
    \/ Restart

SpecWarm == Init /\ [][NextWarm]_vars

\* The program at the scale of a table with more eligible sessions than one
\* page: the store pages by SmallPageSize and the scheduler's candidate_min
\* is one page.
SmallCandidateMin == SmallPageSize

TickSmallPage == TickWith(SmallCandidateMin, SmallPageSize)

NextSmallPage ==
    \/ \E v \in MarketViews : MarketSet(v)
    \/ AdvanceClock
    \/ TickSmallPage
    \/ RouterDeliver
    \/ WorkerRecv
    \/ \E outcome \in SwapOutcomes : WorkerChunk(outcome)
    \/ WorkerCommit
    \/ WorkerCommitFail
    \/ Restart

SpecSmallPage == Init /\ [][NextSmallPage]_vars

\* The program on a store with a small page size and a scheduler whose
\* candidate_min is above the number of sessions: every tick pages.
TickPaging == TickWith(CandidateMin, SmallPageSize)

NextPaging ==
    \/ \E v \in MarketViews : MarketSet(v)
    \/ AdvanceClock
    \/ TickPaging
    \/ RouterDeliver
    \/ WorkerRecv
    \/ \E outcome \in SwapOutcomes : WorkerChunk(outcome)
    \/ WorkerCommit
    \/ WorkerCommitFail
    \/ Restart

SpecPaging == Init /\ [][NextPaging]_vars

(* ------------------- the planner as a pure function --------------------- *)
\* Sizing policies: the default and those of the planner's unit tests
\* (hard_max_total, depth_util, per_user_max, max_chunk, min_chunk).
PlannerPolicies ==
    { SizingPolicy_default,
      [hard_max_total_bid_per_tick |-> 1000000,
       depth_utilization |-> [num |-> 1, den |-> 2],
       max_bid_per_user_per_tick |-> 1000000,
       max_chunk_bid |-> 100000, min_chunk_bid |-> 10000],
      [hard_max_total_bid_per_tick |-> 1000000,
       depth_utilization |-> [num |-> 1, den |-> 1],
       max_bid_per_user_per_tick |-> 1000000,
       max_chunk_bid |-> 100000, min_chunk_bid |-> 60000],
      [hard_max_total_bid_per_tick |-> 50000,
       depth_utilization |-> [num |-> 1, den |-> 1],
       max_bid_per_user_per_tick |-> 1000000,
       max_chunk_bid |-> 100000, min_chunk_bid |-> 10000] }

\* Market views handed to the planner: only the depth matters to it.
PlannerMarkets ==
    { [ts_ms |-> 0, spread_bps |-> 0, trend_drop_bps |-> 0, slippage_bps |-> 0,
       depth_now_in |-> d] :
         d \in {10000, 20001, 150000, 250000, 1000000, 8400003, 1000000000} }

PlannerDesired == {9999, 10001, 100000, 250000, 333333, 4050000}

\* Intent lists of up to MaxIntents users; the i-th intent is session i's.
PlannerIntents ==
    UNION { { [i \in 1..n |-> [session_id |-> i, desired_bid |-> f[i],
                               desired_chunks |-> 0]] :
                f \in [1..n -> PlannerDesired] } : n \in 0..MaxIntents }

\* One call of derive_execution_plan, with its arguments and its result.
PlanCall(market, intents, policy) ==
    /\ plan_call = None
    /\ plan_call' = Some([market |-> market, intents |-> intents, policy |-> policy,
                          out |-> derive_execution_plan(market, intents, policy)])
    /\ UNCHANGED <<core_vars, router, bounded_cache, window, reserve_call>>

NextPlanner ==
    \E market \in PlannerMarkets, intents \in PlannerIntents,
       policy \in PlannerPolicies : PlanCall(market, intents, policy)

SpecPlanner == Init /\ [][NextPlanner]_vars

(* -------------- reserve_execution as a function of the tables ---------- *)
\* A session of another pair than PAIR.
ForeignSession == 3

\* Rows a session of PAIR can have: as inserted, deactivated, and with a
\* balance below one minimal chunk.
ReserveRows(sid) ==
    {InitialState(sid),
     [InitialState(sid) EXCEPT !.active = FALSE],
     [InitialState(sid) EXCEPT !.remaining_bid = MinChunkBid \div 2],
     [InitialState(sid) EXCEPT !.remaining_chunks = 1]}

\* The database before the call: the rows above, and for the sessions of
\* `pending` the reservation left by an earlier reserve_execution call.
ReserveTables(rows, pending) ==
    reserve_execution(rows, <<>>, <<>>, PAIR, 0,
                      [i \in 1..Len(pending) |->
                         [session_id |-> pending[i], total_bid |-> MinChunkBid \div 2,
                          chunks |-> <<MinChunkBid \div 2>>]])

\* Chunk lists of an allocation: one chunk, two chunks, one large chunk.
ReserveChunks == {<<MinChunkBid>>, <<MinChunkBid, MinChunkBid>>, <<MaxChunkBid>>}

\* Allocations of a call: at most one per session, in any order.
ReserveAllocations ==
    {a \in UNION {[1..n -> (SessionIds \cup {ForeignSession}) \X ReserveChunks] : n \in 1..MaxAllocations} :
        \A i, j \in DOMAIN a : i # j => a[i][1] # a[j][1]}

\* One call of reserve_execution for PAIR on a database in one of the states
\* above.
ReserveCall(rows, pending, a) ==
    /\ reserve_call = None
    /\ \E db \in {ReserveTables(rows, pending)} :
       \E allocations \in {[i \in DOMAIN a |->
                              [session_id |-> a[i][1], total_bid |-> SumSeq(a[i][2]),
                               chunks |-> a[i][2]]]} :
          reserve_call' = Some([db |-> db, allocations |-> allocations,
                                result |-> reserve_execution(db.sessions, db.batches,
                                                             db.batch_items, PAIR,
                                                             TickIntervalMs, allocations)])
    /\ UNCHANGED <<core_vars, plan_call, router, bounded_cache, window>>

NextReserve ==
    /\ reserve_call = None
    /\ \E r1 \in ReserveRows(1), r2 \in ReserveRows(2),
          pending \in {<<>>, <<1>>, <<2>>, <<1, 2>>},
          a \in ReserveAllocations :
            ReserveCall(<<r1, r2, InitialState(ForeignSession)>>, pending, a)

SpecReserve == Init /\ [][NextReserve]_vars

(* ---------------------- the session cache at scale --------------------- *)
\* Any task calls upsert: a page load, a write-back of the scheduler, a
\* cache fill of the executor.  The call holds both locks from its first
\* statement to its last.
CacheUpsert(sid, s) ==
    /\ \E r \in {upsert_with([map |-> bounded_cache.map, ring |-> bounded_cache.ring],
                              sid, s, SmallMaxCached, SmallEvictionScan)} :
          bounded_cache' =
             [map |-> r.map, ring |-> r.ring,
              evicted |-> IF (DOMAIN bounded_cache.map) \subseteq (DOMAIN r.map)
                          THEN bounded_cache.evicted
                          ELSE LET v == CHOOSE x \in DOMAIN bounded_cache.map :
                                           x \notin DOMAIN r.map
                               IN Some([id |-> v, entry |-> bounded_cache.map[v]])]
    /\ UNCHANGED <<core_vars, plan_call, router, window, reserve_call>>

\* Any task calls rotate, under the lock of the ring.
CacheRotate ==
    /\ bounded_cache.ring # <<>>
    /\ bounded_cache' = [bounded_cache EXCEPT !.ring = rotate(@)]
    /\ UNCHANGED <<core_vars, plan_call, router, window, reserve_call>>

NextCache ==
    \/ \E sid \in CacheIds, s \in CacheEntries : CacheUpsert(sid, s)
    \/ CacheRotate

SpecCache == Init /\ [][NextCache]_vars

(* --------------------------- the rolling window ------------------------ *)
\* Time between two pushes: none, half the maximum age, more than the
\* maximum age.
PushDelays == {0, DefaultMaxAgeMs \div 2, DefaultMaxAgeMs + 1}

\* Prices pushed.
PushPrices == {1, 2, 3}

\* A task pushes a sample stamped `delay` after the latest one.
WindowPush(delay, price) ==
    /\ Len(window.pushed) < MaxPushes
    /\ \E ts_ms \in {IF window.pushed = <<>> THEN delay
                      ELSE window.pushed[Len(window.pushed)].ts_ms + delay} :
          window' = [push([values |-> window.values, max_queue |-> window.max_queue,
                           max_age_ms |-> window.max_age_ms, pushed |-> window.pushed],
                          ts_ms, price)
                     EXCEPT !.pushed = Append(@, [ts_ms |-> ts_ms, value |-> price])]
    /\ UNCHANGED <<core_vars, plan_call, router, bounded_cache, reserve_call>>

NextWindow == \E delay \in PushDelays, price \in PushPrices : WindowPush(delay, price)

SpecWindow == Init /\ [][NextWindow]_vars

(* ------------------- the router over several pairs ---------------------- *)
\* A scheduler sends Reserved(batch) of a pair on the router's input channel;
\* reserve_execution has made the batch RESERVED before.
SchedulerSend(pair_id) ==
    /\ router.sent < MaxRouted
    /\ router' = [router EXCEPT
           !.sent = @ + 1,
           !.status[router.sent + 1] = "RESERVED",
           !.rx = Append(@, [id |-> router.sent + 1, pair_id |-> pair_id])]
    /\ UNCHANGED <<core_vars, plan_call, bounded_cache, window, reserve_call>>

\* run: rx.recv() returns the next event and get_or_spawn_worker its sender;
\* the router then holds the batch in tx.send(batch).await.
RouterRecvEvent ==
    /\ router.sending = None
    /\ router.rx # <<>>
    /\ router' = [get_or_spawn_worker(router, Head(router.rx).pair_id) EXCEPT
           !.rx = Tail(router.rx),
           !.sending = Some(Head(router.rx))]
    /\ UNCHANGED <<core_vars, plan_call, bounded_cache, window, reserve_call>>

\* run: tx.send(batch).await returns.  It is an error when the receiver is
\* gone; it is Ok once the worker's channel has room, and does not return
\* before.
RouterSendBatch ==
    /\ router.sending # None
    /\ LET batch == router.sending[1]
       IN  IF ~router.alive[batch.pair_id]
           THEN router' = send_failed(router, batch)
           ELSE /\ Len(router.queue[batch.pair_id]) < PerPairCapacity
                /\ router' = [router EXCEPT
                       !.sending = None,
                       !.queue[batch.pair_id] = Append(@, batch)]
    /\ UNCHANGED <<core_vars, plan_call, bounded_cache, window, reserve_call>>

\* ExecutorWorker::run: rx.recv() returns the next batch of the pair.
PairWorkerRecv(pair_id) ==
    /\ router.alive[pair_id]
    /\ router.running[pair_id] = None
    /\ router.queue[pair_id] # <<>>
    /\ router' = [router EXCEPT
           !.running[pair_id] = Some(Head(router.queue[pair_id])),
           !.queue[pair_id] = Tail(@)]
    /\ UNCHANGED <<core_vars, plan_call, bounded_cache, window, reserve_call>>

\* ExecutorWorker::run: execute_batch returns, having committed the batch.
PairWorkerDone(pair_id) ==
    /\ router.alive[pair_id]
    /\ router.running[pair_id] # None
    /\ router' = [router EXCEPT
           !.running[pair_id] = None,
           !.status[router.running[pair_id][1].id] = "COMMITTED",
           !.executed = Append(@, router.running[pair_id][1])]
    /\ UNCHANGED <<core_vars, plan_call, bounded_cache, window, reserve_call>>

\* The worker task ends in a panic while it executes a batch: its receiver
\* is dropped with the batches still in the channel.  The sender stays in
\* pair_txs.
PairWorkerDies(pair_id) ==
    /\ router.alive[pair_id]
    /\ router.running[pair_id] # None
    /\ router' = [router EXCEPT
           !.alive[pair_id] = FALSE,
           !.running[pair_id] = None,
           !.queue[pair_id] = <<>>]
    /\ UNCHANGED <<core_vars, plan_call, bounded_cache, window, reserve_call>>

NextRouter ==
    \/ \E pair_id \in Pairs : SchedulerSend(pair_id)
    \/ RouterRecvEvent
    \/ RouterSendBatch
    \/ \E pair_id \in Pairs : PairWorkerRecv(pair_id)
    \/ \E pair_id \in Pairs : PairWorkerDone(pair_id)
    \/ \E pair_id \in Pairs : PairWorkerDies(pair_id)

SpecRouter == Init /\ [][NextRouter]_vars

(* ------------------------- derived state views ------------------------ *)
BatchIds == 1..Len(batches)
ChunkIds == 1..Len(batch_items)

\* Chunk rows of one session inside one batch.
ChunksOf(sid, b) ==
    {c \in ChunkIds : batch_items[c].batch_id = b /\ batch_items[c].session_id = sid}

\* RESERVED batches holding at least one chunk of the session.
ReservedBatchesOf(sid) ==
    {b \in BatchIds : batches[b].status = "RESERVED" /\ ChunksOf(sid, b) # {}}

\* Sum of the bids of a set of chunk rows.
BidSum(items, C) == SumSeq([i \in 1..Cardinality(C) |-> items[SetToSeq(C)[i]].bid])

(* ------------------------------- C1 ------------------------------------ *)
\* C1: in every reachable state every session satisfies
\* 0 <= in_flight_bid <= remaining_bid and
\* 0 <= in_flight_chunks <= remaining_chunks.
C1_InFlightWithinRemaining ==
    \A sid \in DOMAIN sessions :
        /\ 0 <= sessions[sid].in_flight_bid
        /\ sessions[sid].in_flight_bid <= sessions[sid].remaining_bid
        /\ 0 <= sessions[sid].in_flight_chunks
        /\ sessions[sid].in_flight_chunks <= sessions[sid].remaining_chunks

\* A session whose whole remaining balance is in flight in a second batch,
\* after its first batch was committed or aborted.
C1_Witness ==
    \E sid \in DOMAIN sessions :
        /\ sessions[sid].in_flight_bid > 0
        /\ sessions[sid].in_flight_bid = sessions[sid].remaining_bid
        /\ \E b1 \in BatchIds, b2 \in BatchIds :
              /\ b1 < b2
              /\ batches[b1].status # "RESERVED" /\ ChunksOf(sid, b1) # {}
              /\ batches[b2].status = "RESERVED" /\ ChunksOf(sid, b2) # {}

(* ------------------------------- C2 ------------------------------------ *)
\* C2: each session has at most one RESERVED batch holding chunks for it,
\* and while a session's has_pending_batch is true no step creates a chunk
\* row for it.
C2_AtMostOneReserved ==
    \A sid \in DOMAIN sessions : Cardinality(ReservedBatchesOf(sid)) <= 1

C2_NoReserveWhilePending ==
    \A sid \in DOMAIN sessions :
        sessions[sid].has_pending_batch =>
            \A c \in (1..Len(batch_items')) \ ChunkIds :
                batch_items'[c].session_id # sid

C2_OneUncommittedBatch ==
    [](C2_AtMostOneReserved) /\ [][C2_NoReserveWhilePending]_vars

\* A session locked by a RESERVED batch was selected again by a later tick
\* (persist_fairness moved its last_served_ms past the batch's creation) and
\* still has only that batch.
C2_Witness ==
    \E sid \in DOMAIN sessions :
        /\ sessions[sid].has_pending_batch
        /\ \E b \in ReservedBatchesOf(sid) :
              batches[b].created_ms < sessions[sid].last_served_ms

(* ------------------------------- C3 ------------------------------------ *)
\* C3: for every session the total bid for which execute_swap returned
\* success never exceeds the session's initial remaining_bid.
C3_NoDoubleSpend ==
    \A sid \in SessionIds : swapped[sid] <= InitialState(sid).remaining_bid

(* ------------------------------- C4 ------------------------------------ *)
\* C4: a second commit_batch call with the same batch and results leaves
\* every persisted row (sessions, batches, batch_items) as the first call
\* left it.
C4_CommitIdempotent ==
    [][CommitAgain => UNCHANGED <<sessions, batches, batch_items>>]_vars

\* commit_batch was repeated for a batch whose results carried a failure
\* cooldown, at a later time than the first call.
C4_Witness ==
    /\ recommits > 0
    /\ \E i \in 1..Len(last_commit[1].results) :
          /\ last_commit[1].results[i].cooldown_ms # None
          /\ sessions[last_commit[1].results[i].session_id].cooldown_until_ms
               < now + DefaultFailureCooldownMs

(* ------------------------------- C5 ------------------------------------ *)
\* Chunk results of a commit payload that belong to one session, as a set
\* of [chunk_id, status].
ResultsOf(results, sid) ==
    UNION {{[chunk_id |-> results[i].chunk_results[j].chunk_id,
             status |-> results[i].chunk_results[j].status] :
               j \in 1..Len(results[i].chunk_results)} :
             i \in {k \in 1..Len(results) : results[k].session_id = sid}}

\* A step in which the worker's commit_batch moved its batch to COMMITTED.
CommitStep ==
    /\ worker.pc = "commit"
    /\ batches[worker.batch[1].batch_id].status = "RESERVED"
    /\ batches'[worker.batch[1].batch_id].status = "COMMITTED"

\* C5: at commit, each chunk recorded SUCCESS lowers its session's
\* remaining_bid by its bid, a chunk recorded FAILED or SKIPPED leaves
\* remaining_bid alone, and every recorded chunk lowers in_flight_bid by
\* its bid.
C5_CommitAccounting ==
    [][CommitStep =>
         \A sid \in DOMAIN sessions :
            LET rs == ResultsOf(worker.results, sid)
                ok == {r.chunk_id : r \in {x \in rs : x.status = "SUCCESS"}}
                all == {r.chunk_id : r \in rs}
            IN /\ sessions'[sid].remaining_bid =
                     sessions[sid].remaining_bid - BidSum(batch_items, ok)
               /\ sessions'[sid].in_flight_bid =
                     sessions[sid].in_flight_bid - BidSum(batch_items, all)
               /\ \A r \in rs : batch_items'[r.chunk_id].status = r.status
      ]_vars

\* A committed batch that recorded both a SUCCESS and a FAILED chunk.
C5_Witness ==
    \E b \in BatchIds :
        /\ batches[b].status = "COMMITTED"
        /\ \E c \in ChunkIds : batch_items[c].batch_id = b
                               /\ batch_items[c].status = "SUCCESS"
        /\ \E c \in ChunkIds : batch_items[c].batch_id = b
                               /\ batch_items[c].status = "FAILED"

(* ------------------------------- C6 ------------------------------------ *)
\* PENDING chunk rows of a session inside batches that are still RESERVED.
ReservedPending(sid) ==
    {c \in ChunkIds : /\ batch_items[c].session_id = sid
                      /\ batch_items[c].status = "PENDING"
                      /\ batches[batch_items[c].batch_id].status = "RESERVED"}

\* C6: a session's in_flight_bid and in_flight_chunks equal the sum of bids
\* and the count of its PENDING chunks in RESERVED batches (so both are 0
\* when it has no RESERVED batch).
C6_InFlightIsReservedPending ==
    \A sid \in DOMAIN sessions :
        /\ sessions[sid].in_flight_bid = BidSum(batch_items, ReservedPending(sid))
        /\ sessions[sid].in_flight_chunks = Cardinality(ReservedPending(sid))

(* ------------------------------- C7 ------------------------------------ *)
\* A step in which the worker called execute_swap for its current chunk:
\* the result recorded for that chunk is SUCCESS or FAILED.
SwapCallStep ==
    /\ worker.pc = "users"
    /\ worker' # worker
    /\ worker'.pc # "idle"
    /\ LET cr == IF worker'.user = worker.user
                 THEN worker'.chunk_results[worker.chunk]
                 ELSE worker'.results[worker.user].chunk_results[worker.chunk]
       IN cr.status # "SKIPPED"

\* C7: no chunk is sent to the swap executor while the latest snapshot in
\* the market view store is absent or exceeds one of the session's limits.
C7_GateBAtCall ==
    [][SwapCallStep =>
         gate_b_ok(worker.batch[1].users[worker.user].session_id, market_view)]_vars

(* --------------------------- C8, C9, C10 -------------------------------- *)
\* What on_tick does in the current state, and the cached sessions that
\* pick_intents examines (the cache after ensure_candidates).
TickResult ==
    on_tick([map |-> cache_map, ring |-> rr], last_offset, sessions, batches,
            batch_items, PAIR, market_view[1], now)

TickCandidates ==
    ensure_candidates([map |-> cache_map, ring |-> rr], last_offset, sessions,
                      CandidateMin, PageSize).cache.map

TickIntentIds == {TickResult.intents[i].session_id : i \in 1..Len(TickResult.intents)}

TickReservedIds ==
    IF TickResult.batch = None THEN {}
    ELSE {TickResult.batch[1].users[i].session_id :
            i \in 1..Len(TickResult.batch[1].users)}

\* C8: a tick run with market view m emits an intent, or reserves a chunk,
\* only for sessions whose three limits are each >= the value in m.
C8_GateA ==
    [][Tick => \A sid \in TickIntentIds \cup TickReservedIds :
                  constraints_ok(sid, market_view[1])]_vars

\* C9: a tick emits no intent and reserves nothing for a session whose
\* has_pending_batch is true.
C9_PendingNeverSelected ==
    [][Tick => /\ \A sid \in TickIntentIds : ~TickCandidates[sid].has_pending_batch
               /\ \A sid \in TickReservedIds : ~sessions[sid].has_pending_batch]_vars

ReserveStep == Len(batches') > Len(batches)

\* Chunk rows of a session created by the current step.
NewChunksOf(sid) ==
    {c \in 1..Len(batch_items') : c > Len(batch_items)
                                  /\ batch_items'[c].session_id = sid}

\* C11: recover_uncommitted applied right after a reservation gives every
\* session of the new batch the in_flight_bid and in_flight_chunks it had
\* before the reservation, and has_pending_batch = false.
C11_ReserveThenRecover ==
    [][ReserveStep =>
         \A sid \in DOMAIN sessions :
            NewChunksOf(sid) # {} =>
               LET r == recover_uncommitted(sessions', batches', batch_items').sessions[sid]
               IN /\ r.in_flight_bid = sessions[sid].in_flight_bid
                  /\ r.in_flight_chunks = sessions[sid].in_flight_chunks
                  /\ ~r.has_pending_batch
      ]_vars

\* Recovery aborted the second batch of a session that entered that
\* reservation with an amount already in flight, and left that amount.
C11_Witness ==
    \E sid \in DOMAIN sessions, b \in BatchIds :
        /\ batches[b].status = "ABORTED"
        /\ ChunksOf(sid, b) # {}
        /\ \A c \in ChunksOf(sid, b) : batch_items[c].error = "RECOVERED"
        /\ sessions[sid].in_flight_bid > 0
        /\ ~sessions[sid].has_pending_batch

(* ------------------------------- C12 ----------------------------------- *)
\* C12: when recover_uncommitted has run at startup no batch is RESERVED
\* and every session has in_flight_bid = 0, in_flight_chunks = 0 and
\* has_pending_batch = false.
C12_CleanAfterRecovery ==
    [][restarts' = restarts + 1 =>
         /\ \A b \in 1..Len(batches') : batches'[b].status # "RESERVED"
         /\ \A sid \in DOMAIN sessions :
               /\ sessions'[sid].in_flight_bid = 0
               /\ sessions'[sid].in_flight_chunks = 0
               /\ ~sessions'[sid].has_pending_batch
      ]_vars

(* ------------------------------- C13 ----------------------------------- *)
\* C13: a chunk row leaves PENDING only for SUCCESS, FAILED or SKIPPED, and
\* a row that is SUCCESS, FAILED or SKIPPED keeps its status, tx_id and
\* error in every later step (commit_batch and recover_uncommitted included).
C13_ChunkStatusTransitions ==
    [][\A c \in 1..Len(batch_items) :
          IF batch_items[c].status = "PENDING"
          THEN batch_items'[c].status \in {"PENDING", "SUCCESS", "FAILED", "SKIPPED"}
          ELSE /\ batch_items'[c].status = batch_items[c].status
               /\ batch_items'[c].tx_id = batch_items[c].tx_id
               /\ batch_items'[c].error = batch_items[c].error
      ]_vars

\* A commit_batch call reporting SUCCESS for a chunk arrived after recovery
\* had marked that chunk SKIPPED, and the row still says RECOVERED.
C13_Witness ==
    /\ recommits > 0
    /\ \E i \in 1..Len(last_commit[1].results) :
          \E j \in 1..Len(last_commit[1].results[i].chunk_results) :
             LET cr == last_commit[1].results[i].chunk_results[j]
             IN /\ cr.status = "SUCCESS"
                /\ batch_items[cr.chunk_id].status = "SKIPPED"
                /\ batch_items[cr.chunk_id].error = "RECOVERED"

(* ------------------------------- C14 ----------------------------------- *)
\* C14: a batch leaves RESERVED only for COMMITTED or ABORTED, and a batch
\* that is COMMITTED or ABORTED keeps that status in every later step.
C14_BatchStatusTransitions ==
    [][\A b \in 1..Len(batches) :
          IF batches[b].status = "RESERVED"
          THEN batches'[b].status \in {"RESERVED", "COMMITTED", "ABORTED"}
          ELSE batches'[b].status = batches[b].status
      ]_vars

\* Both orders happened: a COMMITTED batch went through recovery, and a
\* batch aborted by recovery received a commit_batch call afterwards.
C14_Witness ==
    /\ restarts > 0
    /\ recommits > 0
    /\ last_commit[1].done
    /\ batches[last_commit[1].batch.batch_id].status = "ABORTED"
    /\ \E b \in BatchIds : /\ batches[b].status = "COMMITTED"
                           /\ batches[b].created_ms <= batches[last_commit[1].batch.batch_id].created_ms
                           /\ b < last_commit[1].batch.batch_id

(* ------------------------------- C15 ----------------------------------- *)
\* What the DRR liveness statement calls eligible, read from the sessions
\* table and the market view store.
Eligible(sid) ==
    /\ sessions[sid].active
    /\ sessions[sid].cooldown_until_ms <= now
    /\ ~sessions[sid].has_pending_batch
    /\ available_bid(sessions[sid]) > 0
    /\ available_chunks(sessions[sid]) > 0
    /\ market_view # None
    /\ constraints_ok(sid, market_view[1])

\* The steps TickPages describes are exactly the steps of Tick.
TickPagesIsTick == [][TickPages <=> Tick]_vars

C16_GateBFailClosed ==
    [][CommitStep =>
         LET b == worker.batch[1].batch_id
             users == {batch_items[c].session_id :
                         c \in {x \in ChunkIds : batch_items[x].batch_id = b}}
         IN /\ \A c \in ChunkIds :
                  batch_items[c].batch_id = b =>
                     /\ batch_items'[c].status = "SKIPPED"
                     /\ batch_items'[c].error = "GATE_B_CONSTRAINTS"
            /\ \A sid \in users :
                  /\ sessions'[sid].remaining_bid = sessions[sid].remaining_bid
                  /\ sessions'[sid].remaining_chunks = sessions[sid].remaining_chunks
                  /\ sessions'[sid].in_flight_bid = 0
                  /\ sessions'[sid].in_flight_chunks = 0
            /\ \A sid \in SessionIds : swapped'[sid] = 0
      ]_vars

(* ------------------------------- C17 ----------------------------------- *)
\* What classify_error may return: a known code, or a message of at most
\* ErrMax bytes (after the ERR: mark when it was cut) naming no known code.
ClassifiedReason(reason) ==
    \/ reason \in {"MarketNotOpen", "Slippage", "InsufficientLiquidity"}
    \/ /\ Len(reason) <= ErrMax + Len("ERR:")
       /\ Len(reason) > ErrMax => SubSeq(reason, 1, Len("ERR:")) = "ERR:"
       /\ \A code \in {"MarketNotOpen", "Slippage", "InsufficientLiquidity"} :
             ~contains(reason, code)

\* The result of one user: a FAILED chunk is the last chunk reported and
\* carries a classified reason, and the user carries the failure cooldown
\* exactly when a chunk failed.
UserResultOk(ur) ==
    LET n == Len(ur.chunk_results)
        failed == {j \in 1..n : ur.chunk_results[j].status = "FAILED"}
    IN /\ \A j \in failed : j = n /\ ClassifiedReason(ur.chunk_results[j].reason)
       /\ failed # {} => ur.cooldown_ms = Some(DefaultFailureCooldownMs)
       /\ failed = {} =>
             \/ ur.cooldown_ms = None
             \/ /\ ur.cooldown_ms = Some(SessionNotFoundCooldownMs)
                /\ \A j \in 1..n : ur.chunk_results[j].reason = "SESSION_NOT_FOUND"

\* C17: when execute_swap fails on a chunk of a user, the chunk is recorded
\* FAILED with the classified reason, no later chunk of that user is sent
\* to execute_swap, and the user's result carries the failure cooldown
\* (10,000 ms); a user with no failed chunk carries no failure cooldown.
C17_FailureStopsUser ==
    /\ [](\A i \in 1..Len(worker.results) : UserResultOk(worker.results[i]))
    /\ [][SwapCallStep =>
            \A j \in 1..Len(worker.chunk_results) :
               worker.chunk_results[j].status # "FAILED"]_vars

\* The worker finished a user that had two chunks reserved: execute_swap
\* failed on the first with a message that only mentions MarketNotOpen, the
\* second was not called, and the failure cooldown is attached.
C17_Witness ==
    \E i \in 1..Len(worker.results) :
       LET ur == worker.results[i]
       IN /\ Len(worker.batch[1].users[i].chunks) = 2
          /\ Len(ur.chunk_results) = 1
          /\ ur.chunk_results[1].status = "FAILED"
          /\ ur.chunk_results[1].reason = "MarketNotOpen"
          /\ ur.cooldown_ms = Some(DefaultFailureCooldownMs)
          /\ swapped[ur.session_id] = 0

(* ------------------------------- C18 ----------------------------------- *)
\* The allocations on_tick passes to reserve_execution in the current state,
\* and the sessions table at that call (pick_intents has persisted the
\* fairness fields of the sessions it served).
TickPlan ==
    derive_execution_plan(market_view[1], TickResult.intents, SizingPolicy_default)

TickPicked ==
    pick_intents(ensure_candidates([map |-> cache_map, ring |-> rr], last_offset,
                                   sessions, CandidateMin, PageSize).cache,
                 sessions, market_view[1], now).sessions

\* C18: no empty batch is persisted.  Every batches row has a batch_items
\* row, and a reserve_execution call in which no conditional update
\* succeeds returns no batch and leaves the batches table, the batch_items
\* table and every session row as they were at the call.
C18_NoEmptyBatch ==
    /\ [](\A b \in BatchIds : \E c \in ChunkIds : batch_items[c].batch_id = b)
    /\ [][(Tick /\ TickPlan # <<>>
             /\ \A i \in 1..Len(TickPlan) :
                   ~reserve_cas_hit(TickPicked, TickPlan[i].session_id, PAIR,
                                    TickPlan[i].total_bid, Len(TickPlan[i].chunks)))
          => /\ TickResult.batch = None
             /\ batches' = batches
             /\ batch_items' = batch_items
             /\ sessions' = TickPicked]_vars

\* A later tick planned a chunk for a session already locked by the only
\* batch, which is still RESERVED: the conditional update missed, and there
\* is still one batch.
C18_Witness ==
    /\ Len(batches) = 1
    /\ batches[1].status = "RESERVED"
    /\ \E sid \in SessionIds :
          /\ sessions[sid].has_pending_batch
          /\ ChunksOf(sid, 1) # {}
          /\ sessions[sid].last_served_ms > batches[1].created_ms

(* ------------------------------- C19 ----------------------------------- *)
\* A RESERVED batch that no channel and no worker holds.
Stranded(b) ==
    /\ batches[b].status = "RESERVED"
    /\ \A i \in 1..Len(exec_chan) : exec_chan[i].batch_id # b
    /\ \A i \in 1..Len(worker_q) : worker_q[i].batch_id # b
    /\ worker.batch = None \/ worker.batch[1].batch_id # b

\* Sessions with a chunk row in batch b.
UsersOf(b) == {batch_items[c].session_id : c \in {x \in ChunkIds : batch_items[x].batch_id = b}}

\* C19: when the send of Reserved(batch) fails, the tick ends with nothing
\* enqueued, the batch RESERVED and its sessions holding their in_flight_*
\* and has_pending_batch; afterwards the batch and the lock of its sessions
\* change only in the step of a restart.
C19_SendFailureLeavesReserved ==
    /\ [][(Tick /\ ~exec_open /\ TickResult.batch # None) =>
            LET b == TickResult.batch[1]
            IN /\ exec_chan' = exec_chan
               /\ batches'[b.batch_id].status = "RESERVED"
               /\ \A i \in 1..Len(b.users) :
                     LET sid == b.users[i].session_id
                         bid == SumSeq([j \in 1..Len(b.users[i].chunks) |->
                                          b.users[i].chunks[j].bid])
                     IN /\ sessions'[sid].has_pending_batch
                        /\ sessions'[sid].in_flight_bid = TickPicked[sid].in_flight_bid + bid
                        /\ sessions'[sid].in_flight_chunks =
                              TickPicked[sid].in_flight_chunks + Len(b.users[i].chunks)
          ]_vars
    /\ [][\A b \in BatchIds :
            (Stranded(b) /\ restarts' = restarts) =>
               /\ batches'[b].status = "RESERVED"
               /\ \A c \in ChunkIds : batch_items[c].batch_id = b =>
                                          batch_items'[c] = batch_items[c]
               /\ \A sid \in UsersOf(b) :
                     /\ sessions'[sid].has_pending_batch
                     /\ sessions'[sid].in_flight_bid = sessions[sid].in_flight_bid
                     /\ sessions'[sid].in_flight_chunks = sessions[sid].in_flight_chunks
          ]_vars

\* The router is gone and a batch never handed to it, nor to a worker, nor
\* to commit_batch, is RESERVED with its sessions locked.
C19_Witness ==
    /\ ~exec_open
    /\ restarts = 0
    /\ last_commit = None
    /\ \E b \in BatchIds :
          /\ Stranded(b)
          /\ UsersOf(b) # {}
          /\ \A sid \in UsersOf(b) : /\ sessions[sid].has_pending_batch
                                      /\ sessions[sid].in_flight_bid > 0

(* ------------------------------- C20 ----------------------------------- *)
\* Batch ids are minted in reservation order.  Ids of the batches waiting
\* for the worker, oldest first: the worker's channel, then the router's.
Waiting ==
    [i \in 1..(Len(worker_q) + Len(exec_chan)) |->
       IF i <= Len(worker_q) THEN worker_q[i].batch_id
       ELSE exec_chan[i - Len(worker_q)].batch_id]

\* The worker takes a batch from its channel.
RecvStep == worker.pc = "idle" /\ worker'.pc # "idle"

\* C20: batches of the pair are executed and committed in the order in
\* which they were reserved, one at a time.  Waiting batches are in
\* reservation order and younger than the batch in progress; the worker
\* takes a batch only when it has none in progress, takes the oldest
\* waiting one, and commits only the batch in progress, which is older
\* than every batch still waiting and younger than every committed batch.
C20_FifoOneAtATime ==
    /\ [](/\ \A i, j \in 1..Len(Waiting) : i < j => Waiting[i] < Waiting[j]
          /\ worker.batch # None =>
                \A i \in 1..Len(Waiting) : worker.batch[1].batch_id < Waiting[i]
          /\ worker.pc = "idle" <=> worker.batch = None)
    /\ [][RecvStep =>
            /\ worker.batch = None
            /\ \A i \in 1..Len(Waiting) : worker'.batch[1].batch_id <= Waiting[i]
            /\ last_commit # None =>
                  last_commit[1].batch.batch_id < worker'.batch[1].batch_id]_vars
    /\ [][\A b \in BatchIds :
            (batches[b].status = "RESERVED" /\ batches'[b].status = "COMMITTED") =>
               /\ worker.batch # None /\ worker.batch[1].batch_id = b
               /\ \A b2 \in BatchIds : batches[b2].status = "COMMITTED" => b2 < b]_vars

\* Two batches were waiting; the worker took the first, has executed its
\* chunks and is about to commit it while the second still waits.
C20_Witness ==
    /\ worker.batch # None
    /\ worker.batch[1].batch_id = 1
    /\ worker.pc = "commit"
    /\ Waiting = <<2>>
    /\ batches[1].status = "RESERVED"
    /\ batches[2].status = "RESERVED"

C22_CooldownMonotonic ==
    /\ [][\A sid \in SessionIds :
            sessions'[sid].cooldown_until_ms >= sessions[sid].cooldown_until_ms]_vars
    /\ [][CommitStep =>
            \A i \in 1..Len(worker.results) :
               LET ur == worker.results[i]
                   cur == sessions[ur.session_id].cooldown_until_ms
               IN sessions'[ur.session_id].cooldown_until_ms =
                     IF ur.cooldown_ms = None THEN cur
                     ELSE IF cur > now + ur.cooldown_ms[1] THEN cur
                     ELSE now + ur.cooldown_ms[1]]_vars

\* A commit carried the failure cooldown for a session whose stored
\* cooldown ends later: the stored value is kept.
C22_Witness ==
    /\ last_commit # None
    /\ last_commit[1].done
    /\ \E i \in 1..Len(last_commit[1].results) :
          LET ur == last_commit[1].results[i]
          IN /\ ur.cooldown_ms = Some(DefaultFailureCooldownMs)
             /\ batches[last_commit[1].batch.batch_id].status = "COMMITTED"
             /\ sessions[ur.session_id].cooldown_until_ms = 3 * DefaultFailureCooldownMs
             /\ now + DefaultFailureCooldownMs < 3 * DefaultFailureCooldownMs

(* ------------------------------- C23 ----------------------------------- *)
\* recover_uncommitted applied to the persisted state, once and twice.
RecoveredOnce == recover_uncommitted(sessions, batches, batch_items)

RecoveredTwice ==
    recover_uncommitted(RecoveredOnce.sessions, RecoveredOnce.batches,
                        RecoveredOnce.batch_items)

\* C23: recover_uncommitted is idempotent: from every persisted state,
\* running it twice in a row leaves the same sessions, batches and chunk
\* rows as running it once.
C23_RecoveryIdempotent ==
    /\ RecoveredTwice.sessions = RecoveredOnce.sessions
    /\ RecoveredTwice.batches = RecoveredOnce.batches
    /\ RecoveredTwice.batch_items = RecoveredOnce.batch_items

\* A persisted state that recovery changes: a RESERVED batch with PENDING
\* chunks of two sessions, one of which also holds an amount left in flight
\* by an earlier batch.
C23_Witness ==
    \E b \in BatchIds :
       /\ batches[b].status = "RESERVED"
       /\ Cardinality(UsersOf(b)) = 2
       /\ \A c \in ChunkIds : batch_items[c].batch_id = b =>
                                  batch_items[c].status = "PENDING"
       /\ RecoveredOnce.sessions # sessions
       /\ \E sid \in UsersOf(b) : RecoveredOnce.sessions[sid].in_flight_bid > 0

(* ------------------------------- C24 ----------------------------------- *)
\* Sum of total_bid over the allocations of a plan.
TotalAllocated(out) == SumSeq([i \in 1..Len(out) |-> out[i].total_bid])

\* min(floor(depth_now_in * depth_utilization), hard_max_total_bid_per_tick)
GlobalCap(market, policy) ==
    Min((market.depth_now_in * policy.depth_utilization.num)
            \div policy.depth_utilization.den,
        policy.hard_max_total_bid_per_tick)

\* C24: for every market view, intent list and sizing policy, the sum of
\* total_bid over the allocations returned by derive_execution_plan is at
\* most min(floor(depth_now_in * depth_utilization),
\* hard_max_total_bid_per_tick).
C24_TotalWithinGlobalCap ==
    plan_call # None =>
       TotalAllocated(plan_call[1].out) <=
          GlobalCap(plan_call[1].market, plan_call[1].policy)

\* A call in which the cap binds: the depth cap is below the hard cap, two
\* users are served, the plan uses the cap to the last unit and the second
\* user gets less than it asked for.
C24_Witness ==
    /\ plan_call # None
    /\ LET c == plan_call[1]
       IN /\ Len(c.out) = 2
          /\ GlobalCap(c.market, c.policy) < c.policy.hard_max_total_bid_per_tick
          /\ TotalAllocated(c.out) = GlobalCap(c.market, c.policy)
          /\ c.out[2].total_bid < c.intents[c.out[2].session_id].desired_bid
          /\ c.out[2].total_bid < c.policy.max_bid_per_user_per_tick

(* ------------------------------- C25 ----------------------------------- *)
\* C25: every chunk of every allocation returned by derive_execution_plan
\* lies in [min_chunk_bid, max_chunk_bid]; a tail smaller than
\* min_chunk_bid is dropped, never emitted.
C25_ChunksWithinBounds ==
    plan_call # None =>
       \A i \in 1..Len(plan_call[1].out) :
          \A j \in 1..Len(plan_call[1].out[i].chunks) :
             /\ plan_call[1].out[i].chunks[j] >= plan_call[1].policy.min_chunk_bid
             /\ plan_call[1].out[i].chunks[j] <= plan_call[1].policy.max_chunk_bid

\* A call in which a tail is dropped: a user is allocated several chunks
\* and less than it asked for, although neither the per-user limit nor the
\* global cap was reached.
C25_Witness ==
    /\ plan_call # None
    /\ LET c == plan_call[1]
       IN \E i \in 1..Len(c.out) :
             /\ Len(c.out[i].chunks) >= 2
             /\ c.out[i].total_bid < c.intents[c.out[i].session_id].desired_bid
             /\ c.out[i].total_bid < c.policy.max_bid_per_user_per_tick
             /\ TotalAllocated(c.out) + c.policy.min_chunk_bid <=
                   GlobalCap(c.market, c.policy)
             /\ c.intents[c.out[i].session_id].desired_bid - c.out[i].total_bid
                   < c.policy.min_chunk_bid

(* ------------------------------- C26 ----------------------------------- *)
\* C26: when a batch is COMMITTED none of its chunks is still PENDING; every
\* chunk of every user of the batch, also those after the first Gate-B skip
\* or the first failed swap of that user, is SUCCESS, FAILED or SKIPPED.
C26_CommittedHasNoPending ==
    \A b \in BatchIds :
       batches[b].status = "COMMITTED" =>
          \A c \in ChunkIds :
             batch_items[c].batch_id = b =>
                batch_items[c].status \in {"SUCCESS", "FAILED", "SKIPPED"}

(* ------------------------------- C27 ----------------------------------- *)
\* The session has a FAILED or SKIPPED chunk in a COMMITTED batch and
\* nothing left in flight: the work of that chunk was unwound.
Unwound(sid) ==
    /\ sessions[sid].in_flight_bid = 0
    /\ sessions[sid].in_flight_chunks = 0
    /\ \E c \in ChunkIds :
          /\ batch_items[c].session_id = sid
          /\ batch_items[c].status \in {"FAILED", "SKIPPED"}
          /\ batches[batch_items[c].batch_id].status = "COMMITTED"

\* The amount the scheduler would ask for from the persisted row, and
\* whether the cached DRR credit of the session covers it in this tick.
WantOfRow(sid) ==
    Min(Min(Intent(sid).preferred_chunk_bid, Intent(sid).max_bid_per_tick),
        available_bid(sessions[sid]))

CreditCovers(sid) ==
    /\ sid \in DOMAIN cache_map
    /\ \E i \in 1..Len(rr) : rr[i] = sid
    /\ can_serve(accumulate_credit(sid, cache_map[sid]), WantOfRow(sid))

\* What on_tick does in the current state when the ring is not refilled.
TickWarmResult ==
    on_tick_with([map |-> cache_map, ring |-> rr], last_offset, sessions, batches,
                 batch_items, PAIR, market_view[1], now, WarmCandidateMin, PageSize)

\* C27: work unwound by a FAILED or SKIPPED chunk stays available: after
\* the commit, a tick that finds the session out of cooldown, within its
\* constraints, with nothing pending and with DRR credit for its chunk
\* selects the session; the cached in_flight_* and has_pending_batch do not
\* block it.
C27_UnwoundWorkIsRescheduled ==
    [][TickWarm =>
         \A sid \in SessionIds :
            (Unwound(sid) /\ Eligible(sid) /\ CreditCovers(sid)) =>
               \E i \in 1..Len(TickWarmResult.intents) :
                  TickWarmResult.intents[i].session_id = sid
      ]_vars

\* Without a restart, and with the ring not below candidate_min, no step
\* lowers the cached in_flight_bid of a session or lets the ring shrink.
StaleCopyStays ==
    [][(restarts' = restarts /\ Len(rr) >= WarmCandidateMin) =>
          /\ Len(rr') >= WarmCandidateMin
          /\ \A sid \in DOMAIN cache_map :
                /\ sid \in DOMAIN cache_map'
                /\ cache_map'[sid].in_flight_bid >= cache_map[sid].in_flight_bid
                /\ cache_map'[sid].remaining_bid = cache_map[sid].remaining_bid
      ]_vars

(* ------------------------------- C28 ----------------------------------- *)
\* The amount charged to a session by the intents of the current tick, and
\* the number of intents the tick emits for it.
TickCharged(sid) ==
    SumSeq([i \in 1..Len(TickResult.intents) |->
              IF TickResult.intents[i].session_id = sid
              THEN TickResult.intents[i].desired_bid ELSE 0])

TickIntentCount(sid) ==
    Cardinality({i \in 1..Len(TickResult.intents) :
                    TickResult.intents[i].session_id = sid})

\* C28: within one on_tick no session's deficit is credited with its
\* quantum more than once or charged more than once, also when the RR ring
\* is shorter than max_attempts and is traversed several times: a cached
\* session leaves the tick with the deficit it entered with, or with that
\* deficit credited once and charged for at most one intent.
C28_CreditAndChargeOncePerTick ==
    [][Tick =>
         \A sid \in DOMAIN TickCandidates :
            /\ TickIntentCount(sid) <= 1
            /\ \/ /\ TickIntentCount(sid) = 0
                  /\ cache_map'[sid].deficit = TickCandidates[sid].deficit
               \/ cache_map'[sid].deficit =
                     accumulate_credit(sid, TickCandidates[sid]).deficit
                        - TickCharged(sid)
      ]_vars

(* ------------------------------- C29 ----------------------------------- *)
\* The deficit of cached session s after k credits and no charge.
RECURSIVE CreditedOnly(_, _, _)
CreditedOnly(sid, s, k) ==
    IF k = 0 THEN s.deficit
    ELSE CreditedOnly(sid, accumulate_credit(sid, s), k - 1)

\* C29: a session's deficit is charged in a tick only if a chunk is
\* reserved for it in that tick: to a session the tick reserves nothing
\* for (its intent dropped by the planner, or its CAS missed) pick_intents
\* charges nothing, its cached deficit after the tick is the one before it
\* plus credits, and its persisted deficit is not reduced.
C29_ChargeOnlyIfReserved ==
    [][Tick =>
         \A sid \in DOMAIN TickCandidates :
            sid \notin TickReservedIds =>
               /\ TickCharged(sid) = 0
               /\ \E k \in 0..MaxAttempts :
                     cache_map'[sid].deficit = CreditedOnly(sid, TickCandidates[sid], k)
               /\ sessions'[sid].deficit >= sessions[sid].deficit
      ]_vars

(* ------------------------------- C30 ----------------------------------- *)
\* The row of the session passes the filter of fetch_page.
RowEligible(sid) ==
    /\ sessions[sid].active
    /\ sessions[sid].remaining_bid > 0
    /\ sessions[sid].remaining_chunks > 0

InRing(ring, sid) == \E i \in 1..Len(ring) : ring[i] = sid

\* C30: every session that stays eligible in the database is eventually
\* loaded into the RR ring by repeated ticks, also with more eligible
\* sessions than one page or than candidate_min: a tick that finds an
\* eligible session outside the ring loads it or moves the paging cursor on
\* towards its page.
C30_EligibleIsLoaded ==
    [][TickSmallPage =>
         \A sid \in SessionIds :
            (RowEligible(sid) /\ ~InRing(rr, sid)) =>
               (InRing(rr', sid) \/ last_offset' # last_offset)
      ]_vars

\* Without a restart, once the ring holds candidate_min sessions no step
\* adds a session to it or removes one from it.
RingStays ==
    [][(restarts' = restarts /\ Len(rr) >= SmallCandidateMin) =>
          \A sid \in SessionIds : InRing(rr', sid) <=> InRing(rr, sid)
      ]_vars

(* ------------------------------- C31 ----------------------------------- *)
\* The router is held in tx.send(batch).await by the full channel of a live
\* worker.
SendWaits ==
    /\ router.sending # None
    /\ router.alive[router.sending[1].pair_id]
    /\ Len(router.queue[router.sending[1].pair_id]) = PerPairCapacity

\* A batch of another pair than the one being sent waits in the router's
\* input channel, and the channel of that pair's worker has room for it.
OtherPairWaits ==
    \E i \in 1..Len(router.rx) :
       /\ router.rx[i].pair_id # router.sending[1].pair_id
       /\ Len(router.queue[router.rx[i].pair_id]) < PerPairCapacity

\* C31: the handoff of a batch to a pair worker does not block and pairs
\* execute independently: a batch of pair B is never kept in the router's
\* input channel by a send that waits for room in the full channel of pair
\* A's worker.
C31_HandoffDoesNotWait == ~(SendWaits /\ OtherPairWaits)

\* While the send waits, nothing is delivered to any worker: each step that
\* leaves the waiting send in place leaves every worker channel without a
\* new batch.
WaitingSendHoldsAll ==
    [][(SendWaits /\ router'.sending = router.sending) =>
          \A p \in Pairs : Len(router'.queue[p]) <= Len(router.queue[p])
      ]_vars

(* ------------------------------- C32 ----------------------------------- *)
\* The step in which tx.send(batch).await returns an error.
SendFails ==
    /\ router.sending # None
    /\ ~router.alive[router.sending[1].pair_id]
    /\ router'.sending = None

\* The step in which the router receives a batch of a pair that has no
\* cached sender.
RecvWithoutSender ==
    /\ router.sending = None
    /\ router'.sending # None
    /\ router'.sending[1].pair_id \notin router.pair_txs

Held(r, pair_id) ==
    {r.queue[pair_id][i] : i \in 1..Len(r.queue[pair_id])}
       \cup (IF r.running[pair_id] = None THEN {} ELSE {r.running[pair_id][1]})

\* C32: when the send to a pair worker fails on a closed channel the router
\* removes the cached sender, and the batch is not executed and stays
\* RESERVED; the next batch routed for the pair spawns a fresh worker, and
\* the batch is handed to that worker, which executes it.
C32_ClosedChannelRecreatesWorker ==
    [][/\ SendFails =>
            /\ router.sending[1].pair_id \notin router'.pair_txs
            /\ router.sending[1] \in router'.dropped
       /\ \A b \in router'.dropped :
            /\ router'.status[b.id] = "RESERVED"
            /\ \A i \in 1..Len(router'.executed) : router'.executed[i] # b
            /\ b \notin Held(router', b.pair_id)
       /\ RecvWithoutSender =>
            /\ router'.spawned[router'.sending[1].pair_id]
                  = router.spawned[router'.sending[1].pair_id] + 1
            /\ router'.alive[router'.sending[1].pair_id]
            /\ router'.sending[1].pair_id \in router'.pair_txs
            /\ router'.queue[router'.sending[1].pair_id] = <<>>
       /\ (router.sending # None /\ router'.sending = None /\ ~SendFails) =>
            router.sending[1] \in Held(router', router.sending[1].pair_id)
       /\ \A p \in Pairs :
            (router.running[p] # None /\ router'.running[p] = None
               /\ router'.alive[p]) =>
                 /\ router'.executed = Append(router.executed, router.running[p][1])
                 /\ router'.status[router.running[p][1].id] = "COMMITTED"
      ]_vars

\* A send has failed for a batch of a pair, the batch is RESERVED, and a
\* later batch of the pair has been executed by the pair's second worker.
C32_Witness ==
    \E d \in router.dropped :
       /\ router.status[d.id] = "RESERVED"
       /\ router.spawned[d.pair_id] >= 2
       /\ \E i \in 1..Len(router.executed) :
             /\ router.executed[i].pair_id = d.pair_id
             /\ router.executed[i].id > d.id

(* ------------------------------- C33 ----------------------------------- *)
\* The batch is on its way from the scheduler to the end of execute_batch.
InFlight(b, chan, q, w) ==
    \/ \E i \in 1..Len(chan) : chan[i].batch_id = b
    \/ \E i \in 1..Len(q) : q[i].batch_id = b
    \/ (w.batch # None /\ w.batch[1].batch_id = b)

\* Position of the worker in the chunks of its batch, in execution order.
ChunkPosition(w) ==
    SumSeq([i \in 1..(w.user - 1) |-> Len(w.batch[1].users[i].chunks)]) + w.chunk

\* C33: the worker invokes commit_batch exactly once per batch it executes,
\* and after a commit error the running process sends no chunk of that batch
\* to the swap executor again: commit_batch is invoked at the commit point
\* of execute_batch and nowhere else, the worker leaves the batch after that
\* one call whatever it returns, within a batch the worker only moves
\* forward through the chunks, and a batch that has left the worker never
\* comes back to the executor channel, the worker queue or the worker.
C33_CommitOncePerBatch ==
    [][restarts' = restarts =>
         /\ (worker.pc = "commit" /\ worker' # worker) =>
               /\ last_commit' # None
               /\ last_commit'[1].batch = worker.batch[1]
               /\ last_commit'[1].results = worker.results
               /\ ~InFlight(worker.batch[1].batch_id, exec_chan', worker_q', worker')
         /\ last_commit' # last_commit => worker.pc = "commit"
         /\ (worker.pc = "users" /\ worker'.pc = "users" /\ worker' # worker) =>
               /\ worker'.batch = worker.batch
               /\ ChunkPosition(worker') > ChunkPosition(worker)
         /\ swapped' # swapped => worker.pc = "users"
         /\ \A b \in BatchIds :
               ~InFlight(b, exec_chan, worker_q, worker)
                  => ~InFlight(b, exec_chan', worker_q', worker')
      ]_vars

\* commit_batch has failed for a batch of which a chunk had been swapped,
\* the batch is still RESERVED, and the worker has since taken the next
\* batch.
C33_Witness ==
    /\ last_commit # None
    /\ ~last_commit[1].done
    /\ restarts = 0
    /\ batches[last_commit[1].batch.batch_id].status = "RESERVED"
    /\ \E i \in 1..Len(last_commit[1].results) :
          \E j \in 1..Len(last_commit[1].results[i].chunk_results) :
             last_commit[1].results[i].chunk_results[j].status = "SUCCESS"
    /\ worker.batch # None
    /\ worker.batch[1].batch_id # last_commit[1].batch.batch_id

(* ------------------------------- C34 ----------------------------------- *)
\* The conditional update of the allocation matches the session's row as it
\* is before the call: the session exists, belongs to the pair, is active,
\* has no pending batch, and has the bid and the chunks available.
WouldReserve(db, pair_id, a) ==
    /\ a.session_id \in DOMAIN db.sessions
    /\ PairOf(a.session_id) = pair_id
    /\ db.sessions[a.session_id].active
    /\ ~db.sessions[a.session_id].has_pending_batch
    /\ db.sessions[a.session_id].remaining_bid
          - db.sessions[a.session_id].in_flight_bid >= SumSeq(a.chunks)
    /\ db.sessions[a.session_id].remaining_chunks
          - db.sessions[a.session_id].in_flight_chunks >= Len(a.chunks)

\* Rows of batch_items created by the call for the session.
CallChunksOf(c, sid) ==
    {k \in (Len(c.db.batch_items) + 1)..Len(c.result.batch_items) :
        c.result.batch_items[k].session_id = sid}

\* C34: a CAS miss on one allocation is not an error: the session's row is
\* left unchanged and no chunk is created for it, and the other allocations
\* of the same reserve_execution call are reserved in one and the same
\* batch.
C34_MissSkipsOnlyThatAllocation ==
    reserve_call # None =>
      LET c == reserve_call[1]
          new_batch == Len(c.db.batches) + 1
      IN \A i \in 1..Len(c.allocations) :
            LET a == c.allocations[i]
            IN IF WouldReserve(c.db, PAIR, a)
               THEN /\ c.result.batch # None
                    /\ Len(c.result.batches) = new_batch
                    /\ c.result.batches[new_batch].status = "RESERVED"
                    /\ c.result.batch[1].batch_id = new_batch
                    /\ \E u \in 1..Len(c.result.batch[1].users) :
                          /\ c.result.batch[1].users[u].session_id = a.session_id
                          /\ [k \in 1..Len(a.chunks) |->
                                c.result.batch[1].users[u].chunks[k].bid] = a.chunks
                    /\ Cardinality(CallChunksOf(c, a.session_id)) = Len(a.chunks)
                    /\ \A k \in CallChunksOf(c, a.session_id) :
                          /\ c.result.batch_items[k].batch_id = new_batch
                          /\ c.result.batch_items[k].status = "PENDING"
                    /\ c.result.sessions[a.session_id] =
                          [c.db.sessions[a.session_id] EXCEPT
                             !.has_pending_batch = TRUE,
                             !.in_flight_bid = @ + SumSeq(a.chunks),
                             !.in_flight_chunks = @ + Len(a.chunks)]
               ELSE /\ c.result.sessions[a.session_id] = c.db.sessions[a.session_id]
                    /\ CallChunksOf(c, a.session_id) = {}
                    /\ c.result.batch # None =>
                          \A u \in 1..Len(c.result.batch[1].users) :
                             c.result.batch[1].users[u].session_id # a.session_id

\* A call with three allocations of which the first misses on a pending
\* batch, the second is reserved and the third misses on the pair.
C34_Witness ==
    /\ reserve_call # None
    /\ Len(reserve_call[1].allocations) = 3
    /\ reserve_call[1].db.sessions[reserve_call[1].allocations[1].session_id].has_pending_batch
    /\ WouldReserve(reserve_call[1].db, PAIR, reserve_call[1].allocations[2])
    /\ reserve_call[1].allocations[3].session_id = ForeignSession
    /\ reserve_call[1].result.batch # None
    /\ Len(reserve_call[1].result.batch[1].users) = 1

(* ------------------------------- C35 ----------------------------------- *)
\* The selection made by on_tick in the current state: the final state of
\* the loop of pick_intents on the cache left by ensure_candidates.
TickSelection ==
    pick_intents(ensure_candidates([map |-> cache_map, ring |-> rr], last_offset,
                                   sessions, CandidateMin, PageSize).cache,
                 sessions, market_view[1], now)

\* The ring after n calls of rotate.
RECURSIVE RotatedBy(_, _)
RotatedBy(ring, n) ==
    IF n = 0 \/ ring = <<>> THEN ring
    ELSE RotatedBy(Append(Tail(ring), Head(ring)), n - 1)

RingCount(ring, sid) == Cardinality({i \in 1..Len(ring) : ring[i] = sid})

\* C36: after any sequence of upsert, rotate and eviction operations, from
\* whatever tasks, every cached session id appears exactly once in the RR
\* ring and the ring holds no id that is missing from the map.
C36_RingMatchesMap ==
    /\ \A sid \in DOMAIN bounded_cache.map : RingCount(bounded_cache.ring, sid) = 1
    /\ \A i \in 1..Len(bounded_cache.ring) :
          bounded_cache.ring[i] \in DOMAIN bounded_cache.map

\* The cache is full after an eviction and a rotation: the evicted id is
\* in neither the map nor the ring, the id inserted last is not at the end
\* of the ring.
C36_Witness ==
    /\ bounded_cache.evicted # None
    /\ bounded_cache.evicted[1].id \notin DOMAIN bounded_cache.map
    /\ Cardinality(DOMAIN bounded_cache.map) = SmallMaxCached
    /\ bounded_cache.ring[1] = SmallMaxCached + 1

(* ------------------------------- C37 ----------------------------------- *)
\* C37: the number of sessions held by the cache never exceeds max_cached,
\* whatever sequence of upserts is applied.
C37_CacheIsBounded ==
    /\ Cardinality(DOMAIN bounded_cache.map) <= SmallMaxCached
    /\ Len(bounded_cache.ring) <= SmallMaxCached

\* A full cache that has evicted an entry to admit another, and holds the
\* evicted id again after a second eviction.
C37_Witness ==
    /\ Cardinality(DOMAIN bounded_cache.map) = SmallMaxCached
    /\ Len(bounded_cache.ring) = SmallMaxCached
    /\ bounded_cache.evicted # None
    /\ 1 \in DOMAIN bounded_cache.map
    /\ bounded_cache.ring[Len(bounded_cache.ring)] = 1

(* ------------------------------- C38 ----------------------------------- *)
\* The step inserts a new id into a full cache.
InsertsIntoFull(sid) ==
    /\ sid \notin DOMAIN bounded_cache.map
    /\ sid \in DOMAIN bounded_cache'.map
    /\ Cardinality(DOMAIN bounded_cache.map) = SmallMaxCached

\* Entry a of the map is colder than entry b: lower deficit, or the same
\* deficit and served longer ago.
Colder(a, b) ==
    \/ a.deficit < b.deficit
    \/ a.deficit = b.deficit /\ a.last_served_ms < b.last_served_ms

\* C38: when a new id is inserted into a full cache, exactly one entry is
\* evicted; it is among the first eviction_scan entries of the ring and none
\* of those entries is colder (lower deficit, then older last_served_ms);
\* it is removed from the map and from the ring, and the newcomer is put at
\* the end of the ring, the other entries keeping their order.
C38_EvictsColdestOfWindow ==
    [][\A sid \in CacheIds :
          InsertsIntoFull(sid) =>
             \E k \in 1..Min(Len(bounded_cache.ring), SmallEvictionScan) :
                LET victim == bounded_cache.ring[k]
                IN /\ \A j \in 1..Min(Len(bounded_cache.ring), SmallEvictionScan) :
                         ~Colder(bounded_cache.map[bounded_cache.ring[j]],
                                 bounded_cache.map[victim])
                   /\ DOMAIN bounded_cache'.map
                         = ((DOMAIN bounded_cache.map) \ {victim}) \cup {sid}
                   /\ \A x \in (DOMAIN bounded_cache.map) \ {victim} :
                         bounded_cache'.map[x] = bounded_cache.map[x]
                   /\ bounded_cache'.ring
                         = Append(SubSeq(bounded_cache.ring, 1, k - 1)
                                    \o SubSeq(bounded_cache.ring, k + 1,
                                              Len(bounded_cache.ring)),
                                  sid)
      ]_vars

\* The cache has evicted an entry of the scan window and kept a colder
\* one that was outside the window: the entry now before the newcomer at
\* the end of the ring is colder than the evicted entry was.
C38_Witness ==
    /\ bounded_cache.evicted # None
    /\ Len(bounded_cache.ring) = SmallMaxCached
    /\ SmallMaxCached > SmallEvictionScan
    /\ bounded_cache.evicted[1].id \notin DOMAIN bounded_cache.map
    /\ Colder(bounded_cache.map[bounded_cache.ring[SmallMaxCached - 1]],
              bounded_cache.evicted[1].entry)

(* ------------------------------- C39 ----------------------------------- *)
\* The samples pushed that are not older than max_age_ms at the latest push,
\* in the order pushed.
Retained(w) ==
    SelectSeq(w.pushed,
              LAMBDA v : w.pushed[Len(w.pushed)].ts_ms - v.ts_ms <= w.max_age_ms)

\* C39: after any sequence of pushes with non-decreasing timestamps, the
\* window holds the samples not older than max_age_ms relative to the
\* latest push, max() is the greatest value among them, and max() is empty
\* exactly when the window is empty.
C39_MaxOfRetained ==
    /\ window.values = Retained(window)
    /\ (max(window) = None) <=> is_empty(window)
    /\ max(window) # None =>
          /\ \E i \in 1..Len(Retained(window)) :
                Retained(window)[i].value = max(window)[1]
          /\ \A i \in 1..Len(Retained(window)) :
                Retained(window)[i].value <= max(window)[1]

\* The greatest sample pushed has been evicted together with a smaller one
\* of the same timestamp pushed before it, two samples are retained, and
\* max() is below the greatest sample pushed.
C39_Witness ==
    /\ Len(window.pushed) = MaxPushes
    /\ Len(window.values) = 2
    /\ window.pushed[1].ts_ms = window.pushed[2].ts_ms
    /\ window.pushed[1].value < window.pushed[2].value
    /\ max(window) # None
    /\ max(window)[1] < window.pushed[2].value
    /\ window.values[1].value > window.values[2].value

(* ------------------------------- C40 ----------------------------------- *)
\* The sessions fetch_page returns for the page at the offset: the eligible
\* rows whose rank among the eligible rows falls in the page.
PageAt(offset, page_size) ==
    {sid \in SessionIds :
        /\ RowEligible(sid)
        /\ Cardinality({x \in SessionIds : RowEligible(x) /\ x <= sid}) > offset
        /\ Cardinality({x \in SessionIds : RowEligible(x) /\ x <= sid})
              <= offset + page_size}

\* C40: paging is a cyclic scan.  A refill that finds the page at the
\* current offset empty resets the offset to 0, so that the next refill
\* reads the page at offset 0, and adds nothing to the cache; a refill that
\* finds sessions moves the offset on by page_size and upserts every session
\* of the page into the cache.
C40_PagingIsCyclic ==
    [][(TickPaging /\ Len(rr) < CandidateMin) =>
         IF PageAt(last_offset, SmallPageSize) = {}
         THEN /\ last_offset' = 0
              /\ DOMAIN cache_map' = DOMAIN cache_map
         ELSE /\ last_offset' = last_offset + SmallPageSize
              /\ \A sid \in PageAt(last_offset, SmallPageSize) :
                    /\ sid \in DOMAIN cache_map'
                    /\ InRing(rr', sid)
              /\ DOMAIN cache_map'
                    = (DOMAIN cache_map) \cup PageAt(last_offset, SmallPageSize)
      ]_vars

\* The scan has gone round: both sessions are cached, each loaded from a
\* page of its own, and the offset is again one page after 0.
C40_Witness ==
    /\ restarts = 0
    /\ DOMAIN cache_map = SessionIds
    /\ last_offset = SmallPageSize
    /\ Len(rr) < CandidateMin

====
